---------------------------- MODULE Spec2Model ----------------------------
(***************************************************************************)
(* Model of the comparable-sales adjustment engine                         *)
(* (src/utils/adjustment_modeling/adjustmentv1).                           *)
(*                                                                         *)
(* Numbers.  Python floats are modelled in fixed point:                    *)
(*   - money is an integer number of cents (1 dollar = 100 cents);         *)
(*   - percentages are integers in basis points (0.09 = 900 bp);           *)
(*   - products that are not whole cents are rounded toward zero;          *)
(*   - NaN is a separate value with IEEE/Python semantics: arithmetic      *)
(*     propagates it, every ordered comparison with it is false, and       *)
(*     NaN != NaN is true.  Infinities are outside the model.              *)
(* Python values (None, NaN, float, str, list, bool) are records of one    *)
(* uniform shape so that any two of them can be compared.                  *)
(***************************************************************************)
EXTENDS Integers, Sequences, FiniteSets, TLC

---------------------------------------------------------------------------
(* Python values *)

None == [k |-> "none", n |-> 0, s |-> "", l |-> <<>>]
NaN == [k |-> "nan", n |-> 0, s |-> "", l |-> <<>>]
Num(x) == [k |-> "num", n |-> x, s |-> "", l |-> <<>>]
Str(t) == [k |-> "str", n |-> 0, s |-> t, l |-> <<>>]
List(q) == [k |-> "list", n |-> 0, s |-> "", l |-> q]
Bool(b) == [k |-> "bool", n |-> (IF b THEN 1 ELSE 0), s |-> "", l |-> <<>>]

IsNaN(v) == v.k = "nan"
IsNum(v) == v.k = "num"

\* Python truth value: None, 0, '', [] and False are falsy; NaN is truthy.
Truthy(v) ==
  CASE v.k = "none" -> FALSE
    [] v.k = "nan" -> TRUE
    [] v.k = "num" -> v.n # 0
    [] v.k = "str" -> v.s # ""
    [] v.k = "list" -> v.l # <<>>
    [] OTHER -> v.n = 1

\* Python `a or b`
Or(a, b) == IF Truthy(a) THEN a ELSE b

Abs(x) == IF x < 0 THEN -x ELSE x
Sgn(x) == IF x < 0 THEN -1 ELSE IF x > 0 THEN 1 ELSE 0

---------------------------------------------------------------------------
(* Float arithmetic on Num / NaN *)

FNeg(a) == IF IsNaN(a) THEN NaN ELSE Num(-a.n)
FAdd(a, b) == IF IsNaN(a) \/ IsNaN(b) THEN NaN ELSE Num(a.n + b.n)
FSub(a, b) == IF IsNaN(a) \/ IsNaN(b) THEN NaN ELSE Num(a.n - b.n)
\* product of two plain quantities (count x rate)
FMul(a, b) == IF IsNaN(a) \/ IsNaN(b) THEN NaN ELSE Num(a.n * b.n)
FLt(a, b) == IsNum(a) /\ IsNum(b) /\ a.n < b.n
FGt(a, b) == IsNum(a) /\ IsNum(b) /\ a.n > b.n
FLe(a, b) == IsNum(a) /\ IsNum(b) /\ a.n <= b.n
\* Python == and != on floats
FEq(a, b) == IsNum(a) /\ IsNum(b) /\ a.n = b.n
FNe(a, b) == ~FEq(a, b)
FAbs(a) == IF IsNaN(a) THEN NaN ELSE Num(Abs(a.n))

\* x * bp / 10000 on integers, rounded toward zero, without overflowing
MulBpInt(x, bp) ==
  LET ax == Abs(x)
      ab == Abs(bp)
      q == ax \div 10000
      r == ax % 10000
  IN Sgn(x) * Sgn(bp) * (q * ab + (r * ab) \div 10000)

\* amount (cents) x fraction (basis points)
FMulBp(a, bp) == IF IsNaN(a) \/ IsNaN(bp) THEN NaN ELSE Num(MulBpInt(a.n, bp.n))

\* Python builtins min(a, b) and max(a, b): the first argument is kept
\* unless the second compares strictly less (greater).
PyMin(a, b) == IF FLt(b, a) THEN b ELSE a
PyMax(a, b) == IF FGt(b, a) THEN b ELSE a

---------------------------------------------------------------------------
(* Strings *)

LowerChar(c) ==
  CASE c = "A" -> "a" [] c = "B" -> "b" [] c = "C" -> "c" [] c = "D" -> "d"
    [] c = "E" -> "e" [] c = "F" -> "f" [] c = "G" -> "g" [] c = "H" -> "h"
    [] c = "I" -> "i" [] c = "J" -> "j" [] c = "K" -> "k" [] c = "L" -> "l"
    [] c = "M" -> "m" [] c = "N" -> "n" [] c = "O" -> "o" [] c = "P" -> "p"
    [] c = "Q" -> "q" [] c = "R" -> "r" [] c = "S" -> "s" [] c = "T" -> "t"
    [] c = "U" -> "u" [] c = "V" -> "v" [] c = "W" -> "w" [] c = "X" -> "x"
    [] c = "Y" -> "y" [] c = "Z" -> "z" [] OTHER -> c

RECURSIVE Lower(_)
Lower(t) ==
  IF t = "" THEN ""
  ELSE LowerChar(SubSeq(t, 1, 1)) \o Lower(SubSeq(t, 2, Len(t)))

IsSpace(c) == c \in {" ", "\t", "\n"}

RECURSIVE LStrip(_)
LStrip(t) ==
  IF t = "" THEN ""
  ELSE IF IsSpace(SubSeq(t, 1, 1)) THEN LStrip(SubSeq(t, 2, Len(t))) ELSE t

RECURSIVE RStrip(_)
RStrip(t) ==
  IF t = "" THEN ""
  ELSE IF IsSpace(SubSeq(t, Len(t), Len(t))) THEN RStrip(SubSeq(t, 1, Len(t) - 1)) ELSE t

Strip(t) == RStrip(LStrip(t))

\* Python `k in t` for strings
Contains(t, k) ==
  \E i \in 1..(Len(t) - Len(k) + 1) : SubSeq(t, i, i + Len(k) - 1) = k

RECURSIVE Replace(_, _)
\* t.replace(c, '') for a single character c
Replace(t, c) ==
  IF t = "" THEN ""
  ELSE (IF SubSeq(t, 1, 1) = c THEN "" ELSE SubSeq(t, 1, 1)) \o Replace(SubSeq(t, 2, Len(t)), c)

RECURSIVE Join(_, _)
\* sep.join(q) for a sequence of strings
Join(q, sep) ==
  IF q = <<>> THEN ""
  ELSE IF Len(q) = 1 THEN q[1]
  ELSE q[1] \o sep \o Join(Tail(q), sep)

DigitVal(c) ==
  CASE c = "0" -> 0 [] c = "1" -> 1 [] c = "2" -> 2 [] c = "3" -> 3 [] c = "4" -> 4
    [] c = "5" -> 5 [] c = "6" -> 6 [] c = "7" -> 7 [] c = "8" -> 8 [] c = "9" -> 9
    [] OTHER -> -1

AllDigits(t) ==
  /\ t # ""
  /\ \A i \in 1..Len(t) : DigitVal(SubSeq(t, i, i)) >= 0

RECURSIVE DigitsToInt(_)
DigitsToInt(t) ==
  IF t = "" THEN 0
  ELSE 10 * DigitsToInt(SubSeq(t, 1, Len(t) - 1)) + DigitVal(SubSeq(t, Len(t), Len(t)))

\* str(x) of a Python value.  Text fields of the model hold None, NaN or a
\* string; the other cases are given for totality.
PyStr(v) ==
  CASE v.k = "none" -> "None"
    [] v.k = "nan" -> "nan"
    [] v.k = "num" -> ToString(v.n) \o ".0"
    [] v.k = "str" -> v.s
    [] v.k = "list" -> "[" \o Join(v.l, ", ") \o "]"
    [] OTHER -> IF v.n = 1 THEN "True" ELSE "False"

---------------------------------------------------------------------------
(* utils.py: total coercion helpers *)

\* float(s) of a stripped string: an optionally signed integer literal or
\* 'nan'; anything else raises ValueError, reported here as "bad".
ParseFloat(t) ==
  LET body == IF Len(t) > 1 /\ SubSeq(t, 1, 1) \in {"-", "+"} THEN SubSeq(t, 2, Len(t)) ELSE t
      neg == Len(t) > 1 /\ SubSeq(t, 1, 1) = "-"
  IN IF Lower(body) = "nan" THEN [ok |-> TRUE, v |-> NaN]
     ELSE IF AllDigits(body)
       THEN [ok |-> TRUE, v |-> Num(IF neg THEN -DigitsToInt(body) ELSE DigitsToInt(body))]
       ELSE [ok |-> FALSE, v |-> NaN]

txt(v) == Strip(IF v.k = "none" THEN "" ELSE PyStr(v))

num(v) ==
  CASE v.k = "none" -> NaN
    [] v.k = "nan" -> NaN
    [] v.k = "num" -> v
    [] v.k = "bool" -> Num(v.n)
    [] OTHER -> LET p == ParseFloat(Strip(Replace(PyStr(v), ",")))
                IN IF p.ok THEN p.v ELSE NaN

\* pd.to_datetime(d) for the date values of the model: NaN gives NaT, whose
\* year and month are NaN; a string 'YYYY-MM-DD' gives its year and month;
\* any other string raises; a number is nanoseconds after 1970-01-01.
to_datetime(d) ==
  CASE d.k = "nan" -> [ok |-> TRUE, year |-> NaN, month |-> NaN]
    [] d.k = "num" -> [ok |-> TRUE, year |-> Num(1970), month |-> Num(1)]
    [] d.k = "str" ->
         LET t == d.s
             shape == /\ Len(t) = 10
                      /\ SubSeq(t, 5, 5) = "-"
                      /\ SubSeq(t, 8, 8) = "-"
                      /\ AllDigits(SubSeq(t, 1, 4))
                      /\ AllDigits(SubSeq(t, 6, 7))
                      /\ AllDigits(SubSeq(t, 9, 10))
             mo == DigitsToInt(SubSeq(t, 6, 7))
             dy == DigitsToInt(SubSeq(t, 9, 10))
         IN IF shape /\ mo \in 1..12 /\ dy \in 1..28
              THEN [ok |-> TRUE, year |-> Num(DigitsToInt(SubSeq(t, 1, 4))), month |-> Num(mo)]
              ELSE [ok |-> FALSE, year |-> NaN, month |-> NaN]
    [] OTHER -> [ok |-> FALSE, year |-> NaN, month |-> NaN]

months_between(d1, d2) ==
  IF ~Truthy(d1) \/ ~Truthy(d2) THEN Num(0)
  ELSE LET a == to_datetime(d1)
           b == to_datetime(d2)
           diff == FAdd(FMul(FSub(a.year, b.year), Num(12)), FSub(a.month, b.month))
       IN IF ~a.ok \/ ~b.ok THEN Num(0)
          ELSE PyMax(Num(-120), PyMin(Num(120), diff))

POS_SITE_TOKENS == <<"cul-de-sac", "park", "view", "greenbelt", "waterfront", "backs to open">>
NEG_SITE_TOKENS == <<"busy road", "highway", "arterial", "rail", "industrial", "power line", "slope", "steep">>

\* number of the tokens of q that occur in t
CountIn(t, q) == Cardinality({i \in 1..Len(q) : Contains(t, q[i])})

site_token_score(v) ==
  LET t == Lower(txt(v))
  IN CountIn(t, POS_SITE_TOKENS) - CountIn(t, NEG_SITE_TOKENS)

---------------------------------------------------------------------------
(* policy.py.  Money in cents, percentages in basis points. *)

CostAssumptions ==
  [lot_psf |-> 300, fence_token |-> 150000,
   age_per_year |-> 60000, style_token |-> 150000, construction_token |-> 120000,
   foundation_token |-> 100000, roof_token |-> 100000,
   gla_factor_psf |-> 3500, above_grade_psf |-> 4000,
   below_grade_finished_psf |-> 5000, below_grade_unfinished_psf |-> 1500,
   v_bed |-> 900000, v_bath_full |-> 1200000, v_story |-> 300000,
   quality_pct_per_step |-> 400, condition_pct_per_step |-> 250,
   interior_token |-> 100000, fireplace_each |-> 600000,
   hvac_central_bonus |-> 200000, whole_house_fan_bonus |-> 80000,
   multi_unit_cooling_bonus |-> 120000, solar_contrib |-> 1000000,
   natural_gas_bonus |-> 150000, pv_on_grid_bonus |-> 200000,
   garage_space_value |-> 2500000, patio_pkg |-> 400000, deck_pkg |-> 500000,
   porch_pkg |-> 300000,
   monthly_market_trend_pct |-> 25, hoa_years_capitalized |-> 1,
   different_neighborhood_pct |-> -100, different_subdivision_pct |-> -50,
   different_school_district_pct |-> -50, school_rating_pct_per_point |-> 20,
   waterfront_pct |-> 300]

AdjustmentPolicy == [line_cap_pct |-> 900, total_cap_pct |-> 2700]

---------------------------------------------------------------------------
(* Rule functions.  Each returns [err, adj, d]: err is "" when the call   *)
(* returns and the raised exception's name otherwise; adj is the float     *)
(* adjustment (cents) and d is the explanation dict.                       *)

Ret(a, m) == [err |-> "", adj |-> a, d |-> m]
Raise(e) == [err |-> e, adj |-> NaN, d |-> [note |-> "raised"]]

\* Python a != b on field values: NaN differs from everything, itself included
PyNe(a, b) == IF IsNaN(a) \/ IsNaN(b) THEN TRUE ELSE a # b

\* ---- adjustments/transactional.py

sale_date(subject, comp, costs, indicated_value) ==
  LET m == months_between(subject.sale_date, comp.sale_date)
      pct == FMul(FNeg(m), Num(costs.monthly_market_trend_pct))
      adj == FMulBp(Or(comp.sale_price, Num(0)), pct)
  IN Ret(adj, [months_diff |-> m, pct_per_month |-> costs.monthly_market_trend_pct,
               pct_total |-> pct])

hoa_fee(subject, comp, costs) ==
  LET s == num(subject.hoa_fee)
      c == num(comp.hoa_fee)
      months == 12 * costs.hoa_years_capitalized
  IN IF IsNaN(s) \/ IsNaN(c)
       THEN Ret(Num(0), [subject_hoa |-> None, comp_hoa |-> None, months_capitalized |-> 12])
       ELSE Ret(FMul(FSub(s, c), Num(months)),
                [subject_hoa |-> s, comp_hoa |-> c, months_capitalized |-> months])

\* ---- adjustments/location_edu_waterfront.py

location_school_water(subject, comp, costs, indicated_value) ==
  LET nb == PyNe(Or(subject.neighborhood, Str("")), Or(comp.neighborhood, Str("")))
      sd == PyNe(Or(subject.subdivision, Str("")), Or(comp.subdivision, Str("")))
      sc == PyNe(Or(subject.school_district, Str("")), Or(comp.school_district, Str("")))
      s_avg == subject.avg_school_rating
      c_avg == comp.avg_school_rating
      \* pd.notna holds of numbers and of strings; subtracting strings raises
      \* inside the try block and the rating is skipped
      rated == IsNum(s_avg) /\ IsNum(c_avg)
      s_w == Lower(Strip(PyStr(Or(subject.waterfront, Str("")))))
      c_w == Lower(Strip(PyStr(Or(comp.waterfront, Str("")))))
      wf == (s_w # "") # (c_w # "")
      pct == (IF nb THEN costs.different_neighborhood_pct ELSE 0)
             + (IF sd THEN costs.different_subdivision_pct ELSE 0)
             + (IF sc THEN costs.different_school_district_pct ELSE 0)
             + (IF rated THEN (s_avg.n - c_avg.n) * costs.school_rating_pct_per_point ELSE 0)
             + (IF wf THEN (IF s_w # "" THEN costs.waterfront_pct ELSE -costs.waterfront_pct) ELSE 0)
      adj == FMulBp(Or(comp.sale_price, Num(0)), Num(pct))
  IN Ret(adj, [neighborhood_delta |-> nb, subdivision_delta |-> sd, school_district_delta |-> sc,
               school_rating_diff |-> IF rated THEN Num(s_avg.n - c_avg.n) ELSE None,
               waterfront |-> IF wf THEN <<s_w # "", c_w # "">> ELSE <<>>,
               pct_total |-> pct])

\* ---- adjustments/site.py

lot_size(subject, comp, costs) ==
  LET s == num(subject.lot_sqft)
      c == num(comp.lot_sqft)
      d == IF IsNaN(s) \/ IsNaN(c) THEN Num(0) ELSE FSub(s, c)
  IN Ret(FMul(d, Num(costs.lot_psf)), [delta_sqft |-> d, lot_psf |-> costs.lot_psf])

lot_features_fencing(subject, comp, costs) ==
  LET desc_s == PyStr(Or(subject.fencing, Str(""))) \o " | " \o PyStr(Or(subject.lot_features_text, Str("")))
      desc_c == PyStr(Or(comp.fencing, Str(""))) \o " | " \o PyStr(Or(comp.lot_features_text, Str("")))
      sc_s == site_token_score(Str(desc_s))
      sc_c == site_token_score(Str(desc_c))
      d == sc_s - sc_c
  IN Ret(Num(d * costs.fence_token),
         [subject_score |-> sc_s, comp_score |-> sc_c, delta_score |-> d,
          token_value |-> costs.fence_token])

\* ---- adjustments/structure.py

age_year_built(subject, comp, costs) ==
  LET s == num(subject.year_built)
      c == num(comp.year_built)
  IN IF IsNaN(s) \/ IsNaN(c) THEN Ret(Num(0), [note |-> "missing year_built"])
     ELSE Ret(FMul(FSub(s, c), Num(costs.age_per_year)),
              [delta_years |-> FSub(s, c), per_year |-> costs.age_per_year])

\* a variant whose sign depends on which side has the longer value
TokenMismatchSigned(sv, cv, token, note) ==
  LET s0 == Or(sv, Str(""))
      c0 == Or(cv, Str(""))
  IN IF s0.k # "str" \/ c0.k # "str" THEN Raise("AttributeError")
     ELSE LET s == Lower(s0.s)
              c == Lower(c0.s)
          IN IF s = c \/ s = "" \/ c = "" THEN Ret(Num(0), [note |-> note])
             ELSE Ret(Num(IF Len(s) < Len(c) THEN -token ELSE token),
                      [subject |-> s, comp |-> c, token |-> token])

\* (x or '').lower() == (y or '').lower() comparison shared by style,
\* construction, foundation and roof: .lower() exists on strings only
TokenMismatch(sv, cv, token, note) ==
  LET s0 == Or(sv, Str(""))
      c0 == Or(cv, Str(""))
  IN IF s0.k # "str" \/ c0.k # "str" THEN Raise("AttributeError")
     ELSE LET s == Lower(s0.s)
              c == Lower(c0.s)
          IN IF s = c \/ s = "" \/ c = "" THEN Ret(Num(0), [note |-> note])
             ELSE Ret(Num(token), [subject |-> s, comp |-> c, token |-> token])

style(subject, comp, costs) ==
  TokenMismatch(subject.style, comp.style, costs.style_token, "same or missing style")

construction(subject, comp, costs) ==
  TokenMismatch(subject.construction_materials, comp.construction_materials,
                costs.construction_token, "same or missing")

foundation(subject, comp, costs) ==
  TokenMismatch(subject.foundation_details, comp.foundation_details,
                costs.foundation_token, "same or missing")

roof(subject, comp, costs) ==
  TokenMismatch(subject.roof, comp.roof, costs.roof_token, "same or missing")

\* ---- medians (numpy.nanmedian, pandas Series.median with skipna)

RECURSIVE Insert(_, _)
\* x inserted into the ascending integer sequence q
Insert(q, x) ==
  IF q = <<>> THEN <<x>>
  ELSE IF x <= Head(q) THEN <<x>> \o q
  ELSE <<Head(q)>> \o Insert(Tail(q), x)

RECURSIVE Sort(_)
Sort(q) == IF q = <<>> THEN <<>> ELSE Insert(Sort(Tail(q)), Head(q))

Half(x) == Sgn(x) * (Abs(x) \div 2)

RECURSIVE NotNa(_)
\* the integer values of the entries of q that are neither NaN nor None
NotNa(q) ==
  IF q = <<>> THEN <<>>
  ELSE (IF IsNum(Head(q)) THEN <<Head(q).n>> ELSE <<>>) \o NotNa(Tail(q))

\* a variant that counts an undefined entry as 0
MedianZeroFilled(q) ==
  LET v == Sort([i \in 1..Len(q) |-> IF IsNum(q[i]) THEN q[i].n ELSE 0])
      n == Len(v)
  IN IF n = 0 THEN NaN
     ELSE IF n % 2 = 1 THEN Num(v[(n + 1) \div 2])
     ELSE Num(Half(v[n \div 2] + v[n \div 2 + 1]))

\* median of the defined entries; NaN when there is none
Median(q) ==
  LET v == Sort(NotNa(q))
      n == Len(v)
  IN IF n = 0 THEN NaN
     ELSE IF n % 2 = 1 THEN Num(v[(n + 1) \div 2])
     ELSE Num(Half(v[n \div 2] + v[n \div 2 + 1]))

\* ---- adjustments/rooms_size.py

\* a variant that takes the largest price / area of the complete rows
market_psf_max(comps, columns) ==
  LET rows == {i \in 1..Len(comps) : IsNum(comps[i].sale_price) /\ IsNum(comps[i].gla)}
      psf == {comps[i].sale_price.n \div comps[i].gla.n : i \in rows}
  IN IF ~({"sale_price", "gla"} \subseteq columns) THEN [err |-> "KeyError", v |-> NaN]
     ELSE IF rows = {} THEN [err |-> "", v |-> Num(0)]
     ELSE [err |-> "", v |-> Num(CHOOSE x \in psf : \A y \in psf : y <= x)]

\* a variant that keeps the incomplete rows and counts their price per area as 0
market_psf_zero_filled(comps, columns) ==
  LET rows == {i \in 1..Len(comps) : IsNum(comps[i].sale_price) /\ IsNum(comps[i].gla)}
      psf == [i \in 1..Len(comps) |->
                IF i \in rows THEN Num(comps[i].sale_price.n \div comps[i].gla.n) ELSE Num(0)]
  IN IF ~({"sale_price", "gla"} \subseteq columns) THEN [err |-> "KeyError", v |-> NaN]
     ELSE IF comps = <<>> THEN [err |-> "", v |-> Num(0)]
     ELSE [err |-> "", v |-> Median(psf)]

\* comps[['sale_price','gla']].dropna(), then the median of price / area;
\* selecting a column the frame lacks raises KeyError.  Areas are positive.
market_psf(comps, columns) ==
  LET rows == {i \in 1..Len(comps) : IsNum(comps[i].sale_price) /\ IsNum(comps[i].gla)}
      psf == [i \in 1..Len(comps) |->
                IF i \in rows THEN Num(comps[i].sale_price.n \div comps[i].gla.n) ELSE NaN]
  IN IF ~({"sale_price", "gla"} \subseteq columns) THEN [err |-> "KeyError", v |-> NaN]
     ELSE IF rows = {} THEN [err |-> "", v |-> Num(0)]
     ELSE [err |-> "", v |-> Median(psf)]

gla(subject, comp, comps, columns, costs) ==
  LET base_psf == market_psf(comps, columns)
      rate == FMulBp(base_psf.v, Num(costs.gla_factor_psf))
      s == num(subject.gla)
      c == num(comp.gla)
      d == IF IsNaN(s) \/ IsNaN(c) THEN Num(0) ELSE FSub(s, c)
  IN IF base_psf.err # "" THEN Raise(base_psf.err)
     ELSE Ret(FMul(d, rate), [delta_sqft |-> d, rate_psf |-> rate, market_psf |-> base_psf.v])

\* s - c times a flat rate, 0 with a note when either side is NaN
FlatDelta(sv, cv, rate, note) ==
  LET s == num(sv)
      c == num(cv)
  IN IF IsNaN(s) \/ IsNaN(c) THEN Ret(Num(0), [note |-> note])
     ELSE Ret(FMul(FSub(s, c), Num(rate)), [delta |-> FSub(s, c), rate |-> rate])

above_grade(subject, comp, costs) ==
  FlatDelta(subject.above_grade_size, comp.above_grade_size, costs.above_grade_psf,
            "missing above_grade_size")

below_grade(subject, comp, costs) ==
  FlatDelta(subject.below_grade_size, comp.below_grade_size,
            Half(costs.below_grade_finished_psf + costs.below_grade_unfinished_psf),
            "missing below_grade_size")

bedrooms(subject, comp, costs) ==
  FlatDelta(subject.beds, comp.beds, costs.v_bed, "missing beds")

\* a variant that zero-fills the comparable's count only and returns 0 when
\* the subject's is missing
bathroomsSubjectRequired(subject, comp, costs) ==
  LET s0 == num(subject.baths)
      c0 == num(comp.baths)
      c_baths == IF IsNaN(c0) THEN Num(0) ELSE c0
      delta == IF IsNaN(s0) THEN Num(0) ELSE FSub(s0, c_baths)
  IN Ret(FMul(delta, Num(costs.v_bath_full)), [delta_baths |-> delta, per_bath |-> costs.v_bath_full])

bathrooms(subject, comp, costs) ==
  LET s0 == num(subject.baths)
      c0 == num(comp.baths)
      s_baths == IF IsNaN(s0) THEN Num(0) ELSE s0
      c_baths == IF IsNaN(c0) THEN Num(0) ELSE c0
      delta == FSub(s_baths, c_baths)
  IN Ret(FMul(delta, Num(costs.v_bath_full)), [delta_baths |-> delta, per_bath |-> costs.v_bath_full])

stories(subject, comp, costs) ==
  FlatDelta(subject.stories, comp.stories, costs.v_story, "missing stories")

\* ---- adjustments/condition_interior.py

Q_MAP == << <<"luxury", 2>>, <<"custom", 3>>, <<"excellent", 2>>, <<"above average", 3>>,
            <<"average", 4>>, <<"economy", 5>>, <<"basic", 6>> >>
C_MAP == << <<"new", 2>>, <<"excellent", 2>>, <<"renovated", 3>>, <<"updated", 3>>,
            <<"good", 3>>, <<"average", 4>>, <<"typical", 4>>, <<"outdated", 5>>,
            <<"fair", 5>>, <<"poor", 6>> >>

\* a variant in which the last matching key of the map decides
LastMatch(map, t) ==
  LET hits == {i \in 1..Len(map) : Contains(t, map[i][1])}
  IN IF hits = {} THEN None
     ELSE Num(map[CHOOSE i \in hits : \A j \in hits : i >= j][2])

\* the value of the first key of map (in dict order) that occurs in t, else None
FirstMatch(map, t) ==
  LET hits == {i \in 1..Len(map) : Contains(t, map[i][1])}
  IN IF hits = {} THEN None
     ELSE Num(map[CHOOSE i \in hits : \A j \in hits : i <= j][2])

q_from_text(style_text) == FirstMatch(Q_MAP, Lower(txt(style_text)))

c_from_text(cond_text) == FirstMatch(C_MAP, Lower(txt(cond_text)))

\* a variant that drops the sign: steps * pct_per_step * (indicated_value * 0.60)
StepAdjustmentUnsigned(xs, xc, pct_per_step, indicated_value) ==
  LET steps == xs.n - xc.n
      bldg_val == FMulBp(indicated_value, Num(6000))
  IN Ret(FMulBp(bldg_val, Num(steps * pct_per_step)),
         [x_subject |-> xs.n, x_comp |-> xc.n, steps |-> steps,
          pct_per_step |-> pct_per_step, building_basis |-> bldg_val])

\* -steps * pct_per_step * (indicated_value * 0.60)
StepAdjustment(xs, xc, pct_per_step, indicated_value) ==
  LET steps == xs.n - xc.n
      bldg_val == FMulBp(indicated_value, Num(6000))
  IN Ret(FMulBp(bldg_val, Num((-steps) * pct_per_step)),
         [x_subject |-> xs.n, x_comp |-> xc.n, steps |-> steps,
          pct_per_step |-> pct_per_step, building_basis |-> bldg_val])

quality(subject, comp, costs, indicated_value) ==
  StepAdjustment(Or(q_from_text(subject.style), Num(4)), Or(q_from_text(comp.style), Num(4)),
                 costs.quality_pct_per_step, indicated_value)

condition(subject, comp, costs, indicated_value) ==
  StepAdjustment(Or(c_from_text(subject.property_condition_label), Num(4)),
                 Or(c_from_text(comp.property_condition_label), Num(4)),
                 costs.condition_pct_per_step, indicated_value)

flooring_score(v) ==
  LET t == Lower(txt(v))
  IN (IF Contains(t, "hardwood") \/ Contains(t, "wood") THEN 2 ELSE 0)
     + (IF Contains(t, "tile") THEN 1 ELSE 0)
     - (IF Contains(t, "vinyl") THEN 1 ELSE 0)
     - (IF Contains(t, "carpet") THEN 1 ELSE 0)

flooring(subject, comp, costs) ==
  LET ss == flooring_score(subject.flooring)
      cs == flooring_score(comp.flooring)
  IN Ret(Num((ss - cs) * costs.interior_token),
         [subject_score |-> ss, comp_score |-> cs, delta |-> ss - cs, token |-> costs.interior_token])

\* iterating `v or []`: a list gives its items, a string its characters,
\* None/''/[] the empty list; a float (NaN included) is not iterable
Iterable(v) == Or(v, List(<<>>)).k \in {"list", "str"}
Items(v) ==
  LET w == Or(v, List(<<>>))
  IN IF w.k = "list" THEN w.l ELSE [i \in 1..Len(w.s) |-> SubSeq(w.s, i, i)]

\* ' | '.join([txt(x).lower() for x in items])
JoinLower(q) == Join([i \in 1..Len(q) |-> Lower(Strip(q[i]))], " | ")

PREMIUM == <<"cathedral", "vaulted", "open beam", "skylight", "skylight tube">>

interior_features(subject, comp, costs) ==
  IF ~Iterable(subject.interior_features) \/ ~Iterable(comp.interior_features)
    THEN Raise("TypeError")
  ELSE LET ss == CountIn(JoinLower(Items(subject.interior_features)), PREMIUM)
           cs == CountIn(JoinLower(Items(comp.interior_features)), PREMIUM)
       IN Ret(Num((ss - cs) * costs.interior_token),
              [subject_score |-> ss, comp_score |-> cs, delta |-> ss - cs,
               token |-> costs.interior_token])

has_fireplace(items, extra_text) ==
  LET t == JoinLower(Items(items)) \o " | " \o Lower(txt(extra_text))
  IN Contains(t, "fireplace") \/ Contains(t, "fire place") \/ Contains(t, "woodburn")

fireplace(subject, comp, costs) ==
  IF ~Iterable(subject.interior_features) \/ ~Iterable(comp.interior_features)
    THEN Raise("TypeError")
  ELSE LET s_fp == IF has_fireplace(subject.interior_features, subject.parking_desc) THEN 1 ELSE 0
           c_fp == IF has_fireplace(comp.interior_features, comp.parking_desc) THEN 1 ELSE 0
       IN Ret(Num((s_fp - c_fp) * costs.fireplace_each),
              [subject_fireplace |-> s_fp = 1, comp_fireplace |-> c_fp = 1,
               delta |-> s_fp - c_fp, each |-> costs.fireplace_each])

\* ---- adjustments/amenities_utilities.py

cooling_score(v, costs) ==
  (IF Contains(v, "central") THEN costs.hvac_central_bonus ELSE 0)
  + (IF Contains(v, "whole house fan") THEN costs.whole_house_fan_bonus ELSE 0)
  + (IF Contains(v, "multi") \/ Contains(v, "multiunits") THEN costs.multi_unit_cooling_bonus ELSE 0)
  - (IF Contains(v, "wall unit") \/ Contains(v, "window unit") THEN 50000 ELSE 0)

cooling(subject, comp, costs) ==
  LET s == Lower(txt(subject.cooling))
      c == Lower(txt(comp.cooling))
  IN Ret(Num(cooling_score(s, costs) - cooling_score(c, costs)), [subject |-> s, comp |-> c])

B01(b) == IF b THEN 1 ELSE 0

heating(subject, comp, costs) ==
  LET s_ng == Truthy(subject.natural_gas_connected)
      c_ng == Truthy(comp.natural_gas_connected)
  IN Ret(Num((B01(s_ng) - B01(c_ng)) * costs.natural_gas_bonus),
         [subject_gas |-> s_ng, comp_gas |-> c_ng, bonus_each |-> costs.natural_gas_bonus])

garage_parking(subject, comp, costs) ==
  LET s0 == num(subject.garage_spaces)
      c0 == num(comp.garage_spaces)
      s == IF IsNaN(s0) THEN Num(0) ELSE s0
      c == IF IsNaN(c0) THEN Num(0) ELSE c0
      d == FSub(s, c)
  IN Ret(FMul(d, Num(costs.garage_space_value)),
         [delta_spaces |-> d, per_space |-> costs.garage_space_value])

porch_deck_patio(subject, comp, costs) ==
  LET s == Lower(txt(subject.lot_features_text))
      c == Lower(txt(comp.lot_features_text))
      d(token) == B01(Contains(s, token)) - B01(Contains(c, token))
  IN Ret(Num(d("porch") * costs.porch_pkg + d("patio") * costs.patio_pkg + d("deck") * costs.deck_pkg),
         [porch |-> d("porch"), patio |-> d("patio"), deck |-> d("deck")])

energy_utilities(subject, comp, costs) ==
  LET s_solar == Truthy(subject.solar)
      c_solar == Truthy(comp.solar)
      s_pv == Truthy(subject.electric_pv_on_grid)
      c_pv == Truthy(comp.electric_pv_on_grid)
      d == (B01(s_solar) - B01(c_solar)) + (B01(s_pv) - B01(c_pv))
  IN Ret(Num(d * Half(costs.solar_contrib + costs.pv_on_grid_bonus)),
         [subject_solar |-> s_solar, comp_solar |-> c_solar, subject_pv |-> s_pv, comp_pv |-> c_pv])

\* ---- adjustments/external_placeholders.py

external_market(subject, comp) ==
  Ret(Num(0), [note |-> "no external market data provided"])

exemptions(subject, comp) ==
  Ret(Num(0), [exemptions |-> None, note |-> "no exemptions data provided"])

---------------------------------------------------------------------------
(* engine.py *)

\* _cap(x, base, pct): cap = abs(pct) * (base or 0.0); max(-cap, min(cap, x))
cap(x, base, pct) ==
  LET c == FMulBp(Or(base, Num(0)), Num(Abs(pct)))
  IN PyMax(FNeg(c), PyMin(c, x))

\* The line items of a grid row in call and column order: the column label
\* and the key of the explanation.
RULES ==
  << [label |-> "Time (Sale Date)", meta |-> "META:Time"],
     [label |-> "HOA Fees", meta |-> "META:HOA"],
     [label |-> "Neighborhood/Subdivision/Schools/Waterfront", meta |-> "META:Loc"],
     [label |-> "Lot Size", meta |-> "META:Lot"],
     [label |-> "Lot Features / Fencing", meta |-> "META:Fencing"],
     [label |-> "Age / Year Built", meta |-> "META:Age"],
     [label |-> "Style", meta |-> "META:Style"],
     [label |-> "Construction Materials", meta |-> "META:Constr"],
     [label |-> "Foundation", meta |-> "META:Found"],
     [label |-> "Roof", meta |-> "META:Roof"],
     [label |-> "GLA", meta |-> "META:GLA"],
     [label |-> "Above Grade Size", meta |-> "META:Above"],
     [label |-> "Below Grade Size / Basement", meta |-> "META:Below"],
     [label |-> "Bedrooms", meta |-> "META:Bed"],
     [label |-> "Bathrooms", meta |-> "META:Bath"],
     [label |-> "Stories", meta |-> "META:Stories"],
     [label |-> "Quality (Q)", meta |-> "META:Q"],
     [label |-> "Condition (C)", meta |-> "META:C"],
     [label |-> "Flooring", meta |-> "META:Floor"],
     [label |-> "Interior Features", meta |-> "META:Int"],
     [label |-> "Fireplace", meta |-> "META:FP"],
     [label |-> "Cooling", meta |-> "META:Cool"],
     [label |-> "Heating", meta |-> "META:Heat"],
     [label |-> "Garage / Parking", meta |-> "META:Garage"],
     [label |-> "Porch / Deck / Patio", meta |-> "META:Outdoor"],
     [label |-> "Energy / Utilities", meta |-> "META:Energy"],
     [label |-> "External Market (placeholders)", meta |-> "META:External"],
     [label |-> "Exemptions (placeholders)", meta |-> "META:Exemptions"] >>

\* The i-th rule call of a loop iteration.
RuleCall(i, s, c, cs, cols, k, iv) ==
  CASE i = 1 -> sale_date(s, c, k, iv)
    [] i = 2 -> hoa_fee(s, c, k)
    [] i = 3 -> location_school_water(s, c, k, iv)
    [] i = 4 -> lot_size(s, c, k)
    [] i = 5 -> lot_features_fencing(s, c, k)
    [] i = 6 -> age_year_built(s, c, k)
    [] i = 7 -> style(s, c, k)
    [] i = 8 -> construction(s, c, k)
    [] i = 9 -> foundation(s, c, k)
    [] i = 10 -> roof(s, c, k)
    [] i = 11 -> gla(s, c, cs, cols, k)
    [] i = 12 -> above_grade(s, c, k)
    [] i = 13 -> below_grade(s, c, k)
    [] i = 14 -> bedrooms(s, c, k)
    [] i = 15 -> bathrooms(s, c, k)
    [] i = 16 -> stories(s, c, k)
    [] i = 17 -> quality(s, c, k, iv)
    [] i = 18 -> condition(s, c, k, iv)
    [] i = 19 -> flooring(s, c, k)
    [] i = 20 -> interior_features(s, c, k)
    [] i = 21 -> fireplace(s, c, k)
    [] i = 22 -> cooling(s, c, k)
    [] i = 23 -> heating(s, c, k)
    [] i = 24 -> garage_parking(s, c, k)
    [] i = 25 -> porch_deck_patio(s, c, k)
    [] i = 26 -> energy_utilities(s, c, k)
    [] i = 27 -> external_market(s, c)
    [] OTHER -> exemptions(s, c)

RuleCalls(s, c, cs, cols, k, iv) ==
  [i \in 1..Len(RULES) |->
     [label |-> RULES[i].label, meta |-> RULES[i].meta, r |-> RuleCall(i, s, c, cs, cols, k, iv)]]

RECURSIVE FSum(_)
\* sum(values): 0 + v1 + v2 + ...
FSum(q) == IF q = <<>> THEN Num(0) ELSE FAdd(FSum(SubSeq(q, 1, Len(q) - 1)), q[Len(q)])

\* base = float(comp.get('sale_price') or 0.0)
BasePrice(comp) == Or(comp.sale_price, Num(0))

\* a variant that floors the capping base at 100.0
LineBaseHundred(base) == PyMax(base, Num(10000))

\* a variant without the floor: the capping base is the base itself
LineBaseUnfloored(base) == base

\* line_base = max(base, 1.0)
LineBase(base) == PyMax(base, Num(100))

\* a variant without the total cap: the sum of the capped items
NetPhysUnclamped(items, line_base, policy) == FSum(items)

\* net_phys: the sum of the capped items clamped with total_cap_pct
NetPhys(items, line_base, policy) ==
  LET hi == FMulBp(line_base, Num(policy.total_cap_pct))
      lo == FMulBp(line_base, Num(-policy.total_cap_pct))
  IN PyMax(lo, PyMin(hi, FSum(items)))

\* price_phys = base + net_phys
PricePhys(base, net_phys) == FAdd(base, net_phys)

\* 'cap line items': every rule result clamped to the line window
LineItems(calls, line_base, policy) ==
  [i \in 1..Len(calls) |->
     [label |-> calls[i].label, value |-> cap(calls[i].r.adj, line_base, policy.line_cap_pct)]]

Values(line_items) == [i \in 1..Len(line_items) |-> line_items[i].value]

\* the row dict appended to rows
Row(comp, base, line_items, net_phys, calls) ==
  [Comparable |-> comp.address,
   base_sale_price |-> base,
   line_items |-> line_items,
   net_adjustment |-> net_phys,
   adjusted_price |-> PricePhys(base, net_phys),
   meta |-> [i \in 1..Len(calls) |-> [key |-> calls[i].meta, d |-> calls[i].r.d]]]

RowFromItems(comp, base, line_base, line_items, policy, calls) ==
  Row(comp, base, line_items, NetPhys(Values(line_items), line_base, policy), calls)

RowFromCalls(comp, base, policy, calls) ==
  RowFromItems(comp, base, LineBase(base), LineItems(calls, LineBase(base), policy), policy, calls)

\* the exception of the first rule call that raises, "" when none does
FirstError(calls) ==
  LET bad == {i \in 1..Len(calls) : calls[i].r.err # ""}
  IN IF bad = {} THEN "" ELSE calls[CHOOSE i \in bad : \A j \in bad : i <= j].r.err

\* The body of one loop iteration: the grid row of a comparable, or the
\* exception a rule call raises.
MakeRow(s, c, cs, cols, p, k, iv) ==
  [err |-> FirstError(RuleCalls(s, c, cs, cols, k, iv)),
   row |-> RowFromCalls(c, BasePrice(c), p, RuleCalls(s, c, cs, cols, k, iv))]

---------------------------------------------------------------------------
(* State *)

VARIABLES
  subject,          \* the subject record (pd.Series)
  comps,            \* the comparable records, in input order (DataFrame rows)
  columns,          \* the column names of the comps DataFrame
  policy,           \* AdjustmentPolicy
  costs,            \* CostAssumptions
  pc,               \* position in run: "start", "loop", "done", "raised"; "called" after a rule call
  indicated_value,  \* run's local indicated_value (market basis)
  rows,             \* run's local list of grid rows
  grid,             \* the returned grid
  summary,          \* the returned indicated value
  err,              \* name of the exception run raised, "" when none
  call              \* a single rule call and its result

VARIABLES
  previous,         \* what a caller kept of an earlier run: its comps, grid and summary
  properties,       \* fetch_homesage_comps: props['properties'], the input list
  futures,          \* the future of each task executor.map submitted, in input order
  completion,       \* the tasks in the order the worker threads finished them
  yielded,          \* how many results the loop over `results` has taken
  hs_subject,       \* fetch_homesage_comps' local subject
  comparables,      \* fetch_homesage_comps' local comparables
  fetch_pc          \* position in fetch_homesage_comps: "idle", "call", "loop", "returned", "raised"

fetchVars == <<properties, futures, completion, yielded, hs_subject, comparables, fetch_pc>>

vars == <<subject, comps, columns, policy, costs, pc, indicated_value, rows, grid, summary, err, call,
          previous, fetchVars>>

inputs == <<subject, comps, columns, policy, costs>>

---------------------------------------------------------------------------
(* Property records *)

NumericFields == {"sale_price", "hoa_fee", "avg_school_rating", "lot_sqft", "year_built", "gla",
                  "above_grade_size", "below_grade_size", "beds", "baths", "stories",
                  "garage_spaces"}
TextFields == {"address", "sale_date", "neighborhood", "subdivision", "school_district",
               "waterfront", "fencing", "lot_features_text", "style", "construction_materials",
               "foundation_details", "roof", "property_condition_label", "flooring",
               "parking_desc", "cooling"}
ListFields == {"interior_features"}
BoolFields == {"natural_gas_connected", "solar", "electric_pv_on_grid"}
Fields == NumericFields \cup TextFields \cup ListFields \cup BoolFields

\* a record none of whose keys is present: .get() returns None
AllNone == [f \in Fields |-> None]

\* a DataFrame row none of whose cells is filled: every cell is NaN
AllNaN == [f \in Fields |-> NaN]

\* the row io._to_row builds for a property without any data
NoData ==
  [f \in Fields |->
     IF f \in NumericFields THEN NaN
     ELSE IF f \in {"address", "sale_date"} THEN None
     ELSE IF f \in TextFields THEN Str("")
     ELSE IF f \in ListFields THEN List(<<>>)
     ELSE Bool(FALSE)]

\* sample properties

HouseA ==
  [f \in Fields |->
     CASE f = "address" -> Str("1 Elm St")
       [] f = "sale_price" -> NaN
       [] f = "sale_date" -> Str("2024-06-01")
       [] f = "hoa_fee" -> Num(5000)
       [] f = "neighborhood" -> Str("Oak Park")
       [] f = "subdivision" -> Str("West")
       [] f = "school_district" -> Str("Unified")
       [] f = "avg_school_rating" -> Num(8)
       [] f = "waterfront" -> Str("")
       [] f = "lot_sqft" -> Num(8000)
       [] f = "year_built" -> Num(2005)
       [] f = "gla" -> Num(2000)
       [] f = "above_grade_size" -> Num(2000)
       [] f = "below_grade_size" -> Num(500)
       [] f = "beds" -> Num(4)
       [] f = "baths" -> Num(3)
       [] f = "stories" -> Num(2)
       [] f = "garage_spaces" -> Num(2)
       [] f = "fencing" -> Str("Wood")
       [] f = "lot_features_text" -> Str("Cul-De-Sac, Patio")
       [] f = "style" -> Str("Luxury Custom")
       [] f = "construction_materials" -> Str("Brick")
       [] f = "foundation_details" -> Str("Slab")
       [] f = "roof" -> Str("Tile")
       [] f = "property_condition_label" -> Str("Excellent")
       [] f = "flooring" -> Str("Hardwood, Tile")
       [] f = "parking_desc" -> Str("Attached")
       [] f = "cooling" -> Str("Central")
       [] f = "interior_features" -> List(<<"Vaulted Ceilings", "Fireplace">>)
       [] f = "natural_gas_connected" -> Bool(TRUE)
       [] f = "solar" -> Bool(TRUE)
       [] OTHER -> Bool(FALSE)]

HouseB ==
  [f \in Fields |->
     CASE f = "address" -> Str("2 Ash Rd")
       [] f = "sale_price" -> Num(30000000)
       [] f = "sale_date" -> Str("2023-06-01")
       [] f = "hoa_fee" -> Num(0)
       [] f = "neighborhood" -> Str("Oak Park")
       [] f = "subdivision" -> Str("East")
       [] f = "school_district" -> Str("Unified")
       [] f = "avg_school_rating" -> Num(6)
       [] f = "waterfront" -> Str("Yes")
       [] f = "lot_sqft" -> Num(6000)
       [] f = "year_built" -> Num(1990)
       [] f = "gla" -> Num(1500)
       [] f = "above_grade_size" -> Num(1500)
       [] f = "below_grade_size" -> NaN
       [] f = "beds" -> Num(3)
       [] f = "baths" -> Num(2)
       [] f = "stories" -> Num(1)
       [] f = "garage_spaces" -> Num(1)
       [] f = "fencing" -> Str("")
       [] f = "lot_features_text" -> Str("Busy Road, Deck")
       [] f = "style" -> Str("average ranch")
       [] f = "construction_materials" -> Str("Wood Siding")
       [] f = "foundation_details" -> Str("slab")
       [] f = "roof" -> Str("Composition")
       [] f = "property_condition_label" -> Str("Fair")
       [] f = "flooring" -> Str("Carpet")
       [] f = "parking_desc" -> Str("")
       [] f = "cooling" -> Str("Window Unit")
       [] f = "interior_features" -> List(<<>>)
       [] OTHER -> Bool(FALSE)]

\* a comparable like the subject, sold for 500,000
HouseC == [HouseA EXCEPT !["address"] = Str("3 Oak Ln"), !["sale_price"] = Num(50000000)]

SubjectSamples == {HouseA, NoData, AllNone, AllNaN}

CompSamples ==
  {HouseB, HouseC,
   [HouseB EXCEPT !["sale_price"] = NaN],
   [HouseB EXCEPT !["sale_price"] = Num(100)],
   [NoData EXCEPT !["sale_price"] = Num(0)]}

PolicySamples ==
  {AdjustmentPolicy,
   [AdjustmentPolicy EXCEPT !.total_cap_pct = -2700],
   [AdjustmentPolicy EXCEPT !.line_cap_pct = -900]}

\* the comps frame without the columns in absent: .get() of a missing column is None
WithoutColumns(q, absent) ==
  [i \in 1..Len(q) |-> [f \in Fields |-> IF f \in absent THEN None ELSE q[i][f]]]

MaxComps == 3

NoGrid == [columns |-> <<>>, rows |-> <<>>]
NoCall == [rule |-> 0, fwd |-> Raise(""), swp |-> Raise("")]

\* the inputs of a run other than the comparables: every subject under the
\* default policy, every policy and every set of missing columns with HouseA
Scenarios ==
  [subject : SubjectSamples, policy : {AdjustmentPolicy}, absent : {{}}]
  \cup [subject : {HouseA}, policy : PolicySamples, absent : {{}}]
  \cup [subject : {HouseA}, policy : {AdjustmentPolicy}, absent : {{"gla"}, {"sale_price"}}]

\* no earlier run is kept
NoPrevious == [changed |-> 0, comps |-> <<>>, grid |-> NoGrid, summary |-> NaN]

\* subject = None, before a payload is assigned to it
NoSubject == [of |-> 0, error |-> FALSE]

\* fetch_homesage_comps is not called
FetchIdle ==
  /\ properties = <<>>
  /\ futures = <<>>
  /\ completion = <<>>
  /\ yielded = 0
  /\ hs_subject = NoSubject
  /\ comparables = <<>>
  /\ fetch_pc = "idle"

Locals ==
  /\ pc = "start"
  /\ indicated_value = NaN
  /\ rows = <<>>
  /\ grid = NoGrid
  /\ summary = NaN
  /\ err = ""
  /\ call = NoCall
  /\ previous = NoPrevious
  /\ FetchIdle

Init ==
  /\ \E sc \in Scenarios :
       /\ subject = sc.subject
       /\ policy = sc.policy
       /\ \E n \in 0..MaxComps :
            \E q \in [1..n -> CompSamples] :
              /\ comps = WithoutColumns(q, sc.absent)
              \* a frame built from no records has no columns at all
              /\ columns \in (IF n = 0 THEN {Fields, {}} ELSE {Fields \ sc.absent})
  /\ costs = CostAssumptions
  /\ Locals

---------------------------------------------------------------------------
(* engine.run *)

Column(q, f) == [i \in 1..Len(q) |-> q[i][f]]

\* indicated_value = nanmedian(comps['sale_price']) if the column exists
Start ==
  /\ pc = "start"
  /\ indicated_value' = IF "sale_price" \in columns THEN Median(Column(comps, "sale_price")) ELSE NaN
  /\ pc' = "loop"
  /\ UNCHANGED <<inputs, rows, grid, summary, err, call, previous, fetchVars>>

\* one iteration of `for _, comp in comps.iterrows()`
\* a variant in which _market_psf drops the incomplete rows of comps in place
frame_after_rules_inplace(frame) ==
  LET Complete(c) == IsNum(c.sale_price) /\ IsNum(c.gla)
  IN SelectSeq(frame, Complete)

\* the comps frame after the rule calls of an iteration: _market_psf works on
\* comps[['sale_price','gla']].dropna(), a new frame, and no rule assigns to
\* its arguments
frame_after_rules(frame) == frame

\* a variant that visits the comparables last to first
iterrowsReversed(done, frame) == frame[Len(frame) - Len(done)]

\* for _, comp in comps.iterrows(): the comparable visited when done rows
\* have been appended
iterrows(done, frame) == frame[Len(done) + 1]

Iterate ==
  /\ pc = "loop"
  /\ call = NoCall
  /\ Len(rows) < Len(comps)
  /\ \E m \in {MakeRow(subject, iterrows(rows, comps), comps, columns, policy, costs, indicated_value)} :
       IF m.err # ""
         THEN /\ pc' = "raised"
              /\ err' = m.err
              /\ rows' = rows
         ELSE /\ rows' = Append(rows, m.row)
              /\ UNCHANGED <<pc, err>>
  /\ comps' = frame_after_rules(comps)
  /\ UNCHANGED <<subject, columns, policy, costs, indicated_value, grid, summary, call,
               previous, fetchVars>>

GridColumns ==
  <<"Comparable", "Base Sale Price">>
  \o [i \in 1..Len(RULES) |-> RULES[i].label]
  \o <<"Net Adjustment (Property)", "Adjusted Price (Property)">>
  \o [i \in 1..Len(RULES) |-> RULES[i].meta]

\* grid = pd.DataFrame(rows): a frame built from no rows has no columns, and
\* selecting 'Adjusted Price (Property)' from it raises KeyError
Finish ==
  /\ pc = "loop"
  /\ call = NoCall
  /\ Len(rows) = Len(comps)
  /\ IF rows = <<>>
       THEN /\ pc' = "raised"
            /\ err' = "KeyError"
            /\ UNCHANGED <<grid, summary>>
       ELSE /\ pc' = "done"
            /\ grid' = [columns |-> GridColumns, rows |-> rows]
            /\ summary' = Median(Column(rows, "adjusted_price"))
            /\ err' = err
  /\ UNCHANGED <<inputs, indicated_value, rows, call, previous, fetchVars>>

Next == Start \/ Iterate \/ Finish

Spec == Init /\ [][Next]_vars

---------------------------------------------------------------------------
(* Single rule calls: a subject and a comparable that differ from the      *)
(* empty record in one field, the market basis computed as run computes    *)
(* it, and one rule applied to the pair in both orders.                    *)

DateVals == {None, NaN, Str(""), Str("2024-06-01"), Str("2023-06-01"), Str("2010-01-15"), Str("n/a")}
CountVals == {None, NaN, Num(2), Num(5), Str(" 1,2 "), Str("n/a")}
AreaVals == {None, NaN, Num(1500), Num(2000)}
StyleVals == {None, NaN, Str(""), Str("Luxury Custom"), Str("average"), Str("Above Average"),
              Str("Ranch"), Str("ranch")}
ConditionVals == {None, NaN, Str(""), Str("Excellent"), Str("fair"), Str("Like New")}
NameVals == {None, NaN, Str(""), Str("Oak"), Str("oak")}
SiteVals == {None, NaN, Str(""), Str("Cul-De-Sac, View"), Str("Steep slope, deck and patio")}
FlagVals == {None, NaN, Str(""), Str("Yes"), Bool(TRUE), Bool(FALSE)}
FeatureVals == {None, NaN, List(<<>>), List(<<"Vaulted Ceilings", "Skylight Tube">>),
                List(<<" Fireplace ">>)}
CoolingVals == {None, NaN, Str(""), Str("Central, Whole House Fan"), Str("Window Unit")}
FlooringVals == {None, NaN, Str(""), Str("Hardwood, Tile"), Str("Carpet")}

FieldVals(f) ==
  CASE f = "sale_date" -> DateVals
    [] f = "gla" -> AreaVals
    [] f \in NumericFields -> CountVals
    [] f \in {"style", "construction_materials", "foundation_details", "roof"} -> StyleVals
    [] f = "property_condition_label" -> ConditionVals
    [] f \in {"neighborhood", "subdivision", "school_district", "address"} -> NameVals
    [] f \in {"fencing", "lot_features_text", "parking_desc"} -> SiteVals
    [] f = "cooling" -> CoolingVals
    [] f = "flooring" -> FlooringVals
    [] f \in ListFields -> FeatureVals
    [] OTHER -> FlagVals

\* the fields whose rules multiply by the comparable's price or the market basis
PricedFields == {"sale_date", "neighborhood", "avg_school_rating", "waterfront", "style",
                 "property_condition_label", "gla"}

PriceVals(f) == IF f \in PricedFields THEN {Num(50000000), NaN} ELSE {Num(50000000)}

\* a second comparable of the frame, or none
OtherComps(f) ==
  IF f \in {"style", "property_condition_label", "gla"}
    THEN {<<>>, <<[AllNaN EXCEPT !["sale_price"] = Num(30000000), !["gla"] = Num(1500)]>>}
    ELSE {<<>>}

InitRules ==
  /\ \E f \in Fields \ {"sale_price", "address"} :
       \E v1 \in FieldVals(f), v2 \in FieldVals(f), pr \in PriceVals(f), more \in OtherComps(f) :
         /\ subject = [AllNone EXCEPT ![f] = v1]
         /\ comps = <<[AllNone EXCEPT ![f] = v2, !["sale_price"] = pr]>> \o more
  /\ columns = Fields
  /\ policy = AdjustmentPolicy
  /\ costs = CostAssumptions
  /\ Locals

\* rule i called on (subject, comparable) and on the swapped pair
CallRule ==
  /\ pc = "loop"
  /\ \E i \in 1..Len(RULES) :
       call' = [rule |-> i,
                fwd |-> RuleCall(i, subject, comps[1], comps, columns, costs, indicated_value),
                swp |-> RuleCall(i, comps[1], subject, comps, columns, costs, indicated_value)]
  /\ pc' = "called"
  /\ UNCHANGED <<inputs, indicated_value, rows, grid, summary, err, previous, fetchVars>>

NextRules == Start \/ CallRule

SpecRules == InitRules /\ [][NextRules]_vars

---------------------------------------------------------------------------
(* Two runs: a caller keeps the grid of a finished run and calls run again  *)
(* with the same subject, policy and costs on a frame that differs in one   *)
(* comparable.                                                              *)

RerunSamples ==
  {HouseB, HouseC,
   [HouseB EXCEPT !["sale_price"] = NaN],
   [HouseB EXCEPT !["sale_price"] = Num(100)]}

MaxRerunComps == 3

InitTwoRuns ==
  /\ subject = HouseA
  /\ policy = AdjustmentPolicy
  /\ costs = CostAssumptions
  /\ \E n \in 1..MaxRerunComps : comps \in [1..n -> RerunSamples]
  /\ columns = Fields
  /\ Locals

\* run is entered again: comparable j of the frame is another record, the
\* locals of run are fresh
Rerun ==
  /\ pc = "done"
  /\ previous = NoPrevious
  /\ \E j \in 1..Len(comps) :
       \E c \in RerunSamples \ {comps[j]} :
         /\ previous' = [changed |-> j, comps |-> comps, grid |-> grid, summary |-> summary]
         /\ comps' = [comps EXCEPT ![j] = c]
  /\ pc' = "start"
  /\ indicated_value' = NaN
  /\ rows' = <<>>
  /\ grid' = NoGrid
  /\ summary' = NaN
  /\ UNCHANGED <<subject, columns, policy, costs, err, call, fetchVars>>

NextTwoRuns == Start \/ Iterate \/ Finish \/ Rerun

SpecTwoRuns == InitTwoRuns /\ [][NextTwoRuns]_vars

---------------------------------------------------------------------------
(* fetch_data_hs.fetch_homesage_comps: the properties are fetched by the    *)
(* worker threads of a pool while the calling thread walks the results.     *)

MaxProperties == 3

\* the thread limit of the pool, standing for the 10 of
\* min(len(properties), 10) at the scale of MaxProperties
PoolLimit == 2

PropertyTypes == {"subject", "comparable"}

\* max_workers=min(len(properties), 10)
max_workers(props) == IF Len(props) < PoolLimit THEN Len(props) ELSE PoolLimit

\* _fetch_single_property(p, headers) returns (p, payload, p.get("type")): the
\* payload is the response with its condition, or {"error": ...} when the
\* request raised; `of` names the property the payload was fetched for
fetch_single_property(p, raised) ==
  [p |-> p, payload |-> [of |-> p.address, error |-> raised], prop_type |-> p.type]

\* no engine run takes place while the properties are fetched
EngineIdle ==
  /\ subject = AllNone
  /\ comps = <<>>
  /\ columns = Fields
  /\ policy = AdjustmentPolicy
  /\ costs = CostAssumptions
  /\ pc = "idle"
  /\ indicated_value = NaN
  /\ rows = <<>>
  /\ grid = NoGrid
  /\ summary = NaN
  /\ err = ""
  /\ call = NoCall
  /\ previous = NoPrevious

engineVars == <<subject, comps, columns, policy, costs, pc, indicated_value, rows, grid, summary,
                err, call, previous>>

InitFetch ==
  /\ \E n \in 0..MaxProperties :
       \E types \in [1..n -> PropertyTypes] :
         properties = [i \in 1..n |-> [address |-> i, type |-> types[i]]]
  /\ futures = <<>>
  /\ completion = <<>>
  /\ yielded = 0
  /\ hs_subject = NoSubject
  /\ comparables = <<>>
  /\ fetch_pc = "call"
  /\ EngineIdle

\* ThreadPoolExecutor(max_workers=...) raises ValueError for 0 workers;
\* executor.map submits one task per property, in input order
Submit ==
  /\ fetch_pc = "call"
  /\ IF max_workers(properties) = 0
       THEN /\ fetch_pc' = "raised"
            /\ futures' = futures
       ELSE /\ fetch_pc' = "loop"
            /\ futures' = [i \in 1..Len(properties) |->
                             [state |-> "pending", raised |-> FALSE, result |-> <<>>]]
  /\ UNCHANGED <<properties, completion, yielded, hs_subject, comparables, engineVars>>

\* a free worker thread takes the oldest task of the queue
WorkerStart ==
  /\ fetch_pc = "loop"
  /\ Cardinality({i \in 1..Len(futures) : futures[i].state = "running"}) < max_workers(properties)
  /\ \E i \in 1..Len(futures) :
       /\ futures[i].state = "pending"
       /\ \A j \in 1..(i - 1) : futures[j].state # "pending"
       /\ futures' = [futures EXCEPT ![i].state = "running"]
  /\ UNCHANGED <<properties, completion, yielded, hs_subject, comparables, fetch_pc, engineVars>>

\* a worker thread returns from _fetch_single_property, its request answered
\* or failed
WorkerFinish ==
  /\ fetch_pc = "loop"
  /\ \E i \in 1..Len(futures) :
       \E raised \in BOOLEAN :
         /\ futures[i].state = "running"
         /\ futures' = [futures EXCEPT ![i] =
                          [state |-> "finished", raised |-> raised,
                           result |-> fetch_single_property(properties[i], raised)]]
         /\ completion' = Append(completion, i)
  /\ UNCHANGED <<properties, yielded, hs_subject, comparables, fetch_pc, engineVars>>

\* a variant that hands out the results in the order the tasks finished
next_result_as_completed(n, order) == IF n < Len(order) THEN order[n + 1] ELSE 0

\* the task whose result the iterator of executor.map yields after n results:
\* the next one in input order
next_result(n, order) == n + 1

\* one iteration of `for p, payload, prop_type in results`, which waits for
\* the result it is to yield
TakeResult ==
  /\ fetch_pc = "loop"
  /\ yielded < Len(properties)
  /\ \E i \in {next_result(yielded, completion)} \cap (1..Len(futures)) :
       /\ futures[i].state = "finished"
       /\ IF futures[i].result.prop_type = "subject" /\ hs_subject = NoSubject
            THEN /\ hs_subject' = futures[i].result.payload
                 /\ comparables' = comparables
            ELSE /\ comparables' = Append(comparables, futures[i].result.payload)
                 /\ hs_subject' = hs_subject
  /\ yielded' = yielded + 1
  /\ UNCHANGED <<properties, futures, completion, fetch_pc, engineVars>>

\* the loop is over: the executor shuts down and the result is returned
Return ==
  /\ fetch_pc = "loop"
  /\ yielded = Len(properties)
  /\ fetch_pc' = "returned"
  /\ UNCHANGED <<properties, futures, completion, yielded, hs_subject, comparables, engineVars>>

NextFetch == Submit \/ WorkerStart \/ WorkerFinish \/ TakeResult \/ Return

SpecFetch == InitFetch /\ [][NextFetch]_vars

---------------------------------------------------------------------------
(* Properties *)

\* max(base_price, 1.0) as the statements below use it: a number
FloorAtOneDollar(b) == IF IsNum(b) /\ b.n < 100 THEN Num(100) ELSE b

\* the k-th smallest entry of a non-empty sequence of integers
KthSmallest(q, k) ==
  CHOOSE x \in {q[i] : i \in 1..Len(q)} :
    /\ Cardinality({i \in 1..Len(q) : q[i] < x}) < k
    /\ Cardinality({i \in 1..Len(q) : q[i] <= x}) >= k

\* m is the median of the non-empty sequence q of floats, every entry
\* counted: the middle value for an odd length, the mean of the two middle
\* values for an even one, and NaN when an entry is NaN
IsMedianOf(m, q) ==
  LET n == Len(q)
      v == [i \in 1..n |-> q[i].n]
  IN /\ n > 0
     /\ (\E i \in 1..n : ~IsNum(q[i])) => IsNaN(m)
     /\ (\A i \in 1..n : IsNum(q[i])) =>
          /\ IsNum(m)
          /\ m.n = IF n % 2 = 1 THEN KthSmallest(v, (n + 1) \div 2)
                   ELSE Half(KthSmallest(v, n \div 2) + KthSmallest(v, n \div 2 + 1))

\* C1: in every grid row, the absolute value of every capped line item is at
\* most line_cap_pct x max(base price, 1.0), the bound taken in magnitude.
C1_LineItemsWithinLineCap ==
  \A j \in 1..Len(rows) : \A i \in 1..Len(rows[j].line_items) :
    FLe(FAbs(rows[j].line_items[i].value),
        FAbs(FMulBp(FloorAtOneDollar(rows[j].base_sale_price), Num(policy.line_cap_pct))))

\* C2: in every grid row, the absolute value of the net adjustment is at most
\* total_cap_pct x max(base price, 1.0), the bound taken in magnitude, for
\* every total_cap_pct.
C2_NetWithinTotalCap ==
  \A j \in 1..Len(rows) :
    FLe(FAbs(rows[j].net_adjustment),
        FAbs(FMulBp(FloorAtOneDollar(rows[j].base_sale_price), Num(policy.total_cap_pct))))

\* C3: in every grid row the adjusted price equals base sale price + net
\* adjustment, and the base sale price is the comparable's own sale price,
\* 0 when the price is absent (never the 1.0 floor of the capping base).
C3_AdjustedIsBasePlusNet ==
  \A j \in 1..Len(rows) :
    /\ FEq(rows[j].adjusted_price, FAdd(rows[j].base_sale_price, rows[j].net_adjustment))
    /\ rows[j].base_sale_price = (IF IsNum(comps[j].sale_price) THEN comps[j].sale_price ELSE Num(0))

\* C4: the returned indicated value is the median of the grid's adjusted-price
\* column: the middle value for an odd number of comparables, the average of
\* the two middle values for an even number.
C4_IndicatedValueIsMedian ==
  pc = "done" => IsMedianOf(summary, Column(grid.rows, "adjusted_price"))

\* C5: with zero comparables run does not raise, and returns an empty grid and
\* a NaN indicated value.
C5_NoComparablesReturnsEmpty ==
  Len(comps) = 0 =>
    /\ pc # "raised"
    /\ pc = "done" => (grid.rows = <<>> /\ IsNaN(summary))

\* C6: with at least one comparable, run never raises, whichever fields are
\* missing (absent, None or NaN).
C6_RunNeverRaises ==
  Len(comps) > 0 => pc # "raised"

\* a field value that is undefined: None or NaN
Undefined(v) == v \in {None, NaN}

\* the fields of the two records that rule i of RULES reads
RuleReads(i) ==
  CASE i = 1 -> {"sale_date", "sale_price"}
    [] i = 2 -> {"hoa_fee"}
    [] i = 3 -> {"neighborhood", "subdivision", "school_district", "avg_school_rating",
                 "waterfront", "sale_price"}
    [] i = 4 -> {"lot_sqft"}
    [] i = 5 -> {"fencing", "lot_features_text"}
    [] i = 6 -> {"year_built"}
    [] i = 7 -> {"style"}
    [] i = 8 -> {"construction_materials"}
    [] i = 9 -> {"foundation_details"}
    [] i = 10 -> {"roof"}
    [] i = 11 -> {"gla"}
    [] i = 12 -> {"above_grade_size"}
    [] i = 13 -> {"below_grade_size"}
    [] i = 14 -> {"beds"}
    [] i = 15 -> {"baths"}
    [] i = 16 -> {"stories"}
    [] i = 17 -> {"style"}
    [] i = 18 -> {"property_condition_label"}
    [] i = 19 -> {"flooring"}
    [] i = 20 -> {"interior_features"}
    [] i = 21 -> {"interior_features", "parking_desc"}
    [] i = 22 -> {"cooling"}
    [] i = 23 -> {"natural_gas_connected"}
    [] i = 24 -> {"garage_spaces"}
    [] i = 25 -> {"lot_features_text"}
    [] i = 26 -> {"solar", "electric_pv_on_grid"}
    [] OTHER -> {}

BothUndefined(i) ==
  \A f \in RuleReads(i) : Undefined(subject[f]) /\ Undefined(comps[1][f])

\* C7: every rule the engine invokes returns an adjustment of exactly 0.0 when
\* the fields it reads are undefined on both the subject and the comparable.
C7_BothUndefinedGivesZero ==
  (pc = "called" /\ BothUndefined(call.rule)) =>
    (call.fwd.err = "" /\ call.fwd.adj = Num(0))

\* C8: with subject date 2024-06-01, comparable date 2023-06-01, monthly trend
\* 0.0025 and comparable price 500,000 the sale-date rule reports
\* months_diff = -12 and returns +15,000: the older comparable trends upward.
C8_OlderComparableTrendsUp ==
  (/\ pc = "called"
   /\ call.rule = 1
   /\ subject.sale_date = Str("2024-06-01")
   /\ comps[1].sale_date = Str("2023-06-01")
   /\ comps[1].sale_price = Num(50000000)
   /\ costs.monthly_market_trend_pct = 25) =>
    (/\ call.fwd.err = ""
     /\ call.fwd.d.months_diff = Num(-12)
     /\ call.fwd.adj = Num(1500000))

\* the ordinals the style and condition texts of the samples stand for
\* (2 best .. 6 worst, 4 when no keyword occurs)
QualityOf(v) ==
  CASE v = Str("Luxury Custom") -> 2
    [] v = Str("Above Average") -> 3
    [] OTHER -> 4

ConditionOf(v) ==
  CASE v \in {Str("Excellent"), Str("Like New")} -> 2
    [] v = Str("fair") -> 5
    [] OTHER -> 4

\* the sale prices of the comparables that have one
DefinedPrices == SelectSeq(Column(comps, "sale_price"), IsNum)

\* -(steps) x pct_per_step x (0.60 x median comparable sale price)
StepFormula(steps, pct_per_step, a) ==
  /\ DefinedPrices = <<>> => IsNaN(a)
  /\ DefinedPrices # <<>> =>
       \E m \in {p.n : p \in {DefinedPrices[j] : j \in 1..Len(DefinedPrices)}}
            \cup {Half(DefinedPrices[1].n + DefinedPrices[Len(DefinedPrices)].n)} :
         /\ IsMedianOf(Num(m), DefinedPrices)
         /\ a = Num(MulBpInt(MulBpInt(m, 6000), (-steps) * pct_per_step))

\* C9: the quality rule returns -(Q_subject - Q_comp) x quality_pct_per_step x
\* (0.60 x median comparable sale price), +24,000 for a 'luxury' subject (Q=2),
\* an 'average' comparable (Q=4), a median price of 500,000 and 0.04 per step;
\* the condition rule has the same form with condition_pct_per_step and the
\* condition label.
C9_QualityConditionFormula ==
  /\ (pc = "called" /\ call.rule = 17) =>
       /\ call.fwd.err = ""
       /\ StepFormula(QualityOf(subject.style) - QualityOf(comps[1].style),
                      costs.quality_pct_per_step, call.fwd.adj)
       /\ (/\ subject.style = Str("Luxury Custom")
           /\ comps[1].style = Str("average")
           /\ indicated_value = Num(50000000)
           /\ costs.quality_pct_per_step = 400) => call.fwd.adj = Num(2400000)
  /\ (pc = "called" /\ call.rule = 18) =>
       /\ call.fwd.err = ""
       /\ StepFormula(ConditionOf(subject.property_condition_label)
                        - ConditionOf(comps[1].property_condition_label),
                      costs.condition_pct_per_step, call.fwd.adj)

\* C9's case: the quality rule called on the luxury subject and the average
\* comparable with a market basis of 500,000
C9_Witness ==
  /\ pc = "called"
  /\ call.rule = 17
  /\ subject.style = Str("Luxury Custom")
  /\ comps[1].style = Str("average")
  /\ indicated_value = Num(50000000)
  /\ call.fwd.adj = Num(2400000)

\* the rules of RULES named by C10: lot_size, age_year_built, bedrooms,
\* bathrooms, stories
AntisymmetricRules == {4, 6, 14, 15, 16}

\* C10: for age_year_built, bedrooms, bathrooms, stories and lot_size, swapping
\* the subject and the comparable negates the returned adjustment, a field
\* missing on one side included.
C10_SwapNegates ==
  (pc = "called" /\ call.rule \in AntisymmetricRules) =>
    /\ call.fwd.err = "" /\ call.swp.err = ""
    /\ IsNum(call.fwd.adj)
    /\ call.swp.adj = FNeg(call.fwd.adj)

\* C10's case: bathrooms called with the count missing on the subject only,
\* where the adjustment is not zero
C10_Witness ==
  /\ pc = "called"
  /\ call.rule = 15
  /\ Undefined(subject.baths)
  /\ comps[1].baths = Num(2)
  /\ call.fwd.adj = Num(-2400000)
  /\ call.swp.adj = Num(2400000)

\* the raw (uncapped) adjustment rule i returns for the j-th comparable
RawAdj(j, i) == RuleCall(i, subject, comps[j], comps, columns, costs, indicated_value).adj

\* the comparables whose sale price is 0 or absent
ZeroOrAbsentPrice(j) == comps[j].sale_price \in {Num(0), None, NaN}

\* C11 as stated: for a comparable whose sale price is 0 or absent the cap
\* window is zero: every line item of its row is 0, the net adjustment is 0
\* and the adjusted price equals the (zero) base.
C11_ZeroWindowForZeroBase ==
  \A j \in 1..Len(rows) :
    ZeroOrAbsentPrice(j) =>
      /\ \A i \in 1..Len(rows[j].line_items) : rows[j].line_items[i].value = Num(0)
      /\ rows[j].net_adjustment = Num(0)
      /\ rows[j].base_sale_price = Num(0)
      /\ rows[j].adjusted_price = rows[j].base_sale_price

\* C11 amended: for a row whose base price is 0 (sale price 0 or None) the
\* capping base is 1.0, so the window is not zero: every line item lies within
\* +/- |line_cap_pct| x 1.0, the net adjustment within +/- |total_cap_pct| x 1.0,
\* and the adjusted price equals the net adjustment.
C11_UnitWindowForZeroBase ==
  \A j \in 1..Len(rows) :
    rows[j].base_sale_price = Num(0) =>
      /\ \A i \in 1..Len(rows[j].line_items) :
           /\ IsNum(rows[j].line_items[i].value)
           /\ Abs(rows[j].line_items[i].value.n) <= MulBpInt(100, Abs(policy.line_cap_pct))
      /\ IsNum(rows[j].net_adjustment)
      /\ Abs(rows[j].net_adjustment.n) <= MulBpInt(100, Abs(policy.total_cap_pct))
      /\ rows[j].adjusted_price = rows[j].net_adjustment

\* C11's case: a row of a comparable sold for 0 with a line item at the edge
\* of the unit window and a net adjustment that is not 0
C11_Witness ==
  \E j \in 1..Len(rows) :
    /\ comps[j].sale_price = Num(0)
    /\ rows[j].base_sale_price = Num(0)
    /\ \E i \in 1..Len(rows[j].line_items) : rows[j].line_items[i].value = Num(9)
    /\ rows[j].net_adjustment # Num(0)

\* C12: the returned grid has exactly one row per input comparable, and its
\* i-th row is the row computed from the i-th input comparable.
C12_RowsInInputOrder ==
  /\ Len(rows) <= Len(comps)
  /\ pc = "done" =>
       /\ Len(grid.rows) = Len(comps)
       /\ \A i \in 1..Len(comps) :
            /\ grid.rows[i].Comparable = comps[i].address
            /\ grid.rows[i] =
                 MakeRow(subject, comps[i], comps, columns, policy, costs, indicated_value).row

\* C12's case: a grid returned for three comparables of which the first and
\* the last differ
C12_Witness ==
  /\ pc = "done"
  /\ Len(comps) = 3
  /\ comps[1].address # comps[3].address
  /\ grid.rows[1] # grid.rows[3]

\* the line-item columns of a grid row, in order
LineItemColumns ==
  <<"Time (Sale Date)", "HOA Fees", "Neighborhood/Subdivision/Schools/Waterfront",
     "Lot Size", "Lot Features / Fencing", "Age / Year Built", "Style",
     "Construction Materials", "Foundation", "Roof", "GLA", "Above Grade Size",
     "Below Grade Size / Basement", "Bedrooms", "Bathrooms", "Stories", "Quality (Q)",
     "Condition (C)", "Flooring", "Interior Features", "Fireplace", "Cooling", "Heating",
     "Garage / Parking", "Porch / Deck / Patio", "Energy / Utilities",
     "External Market (placeholders)", "Exemptions (placeholders)" >>

\* the explanation entries of a grid row, one per rule, in order
ExplanationKeys ==
  <<"META:Time", "META:HOA", "META:Loc", "META:Lot", "META:Fencing", "META:Age",
     "META:Style", "META:Constr", "META:Found", "META:Roof", "META:GLA", "META:Above",
     "META:Below", "META:Bed", "META:Bath", "META:Stories", "META:Q", "META:C",
     "META:Floor", "META:Int", "META:FP", "META:Cool", "META:Heat", "META:Garage",
     "META:Outdoor", "META:Energy", "META:External", "META:Exemptions" >>

\* C13: every grid row carries the same fixed line-item columns in the same
\* order, then net adjustment, adjusted price and one explanation per rule,
\* whatever the input records; the two placeholder rules are always recorded
\* with adjustment 0 and a 'no ... data provided' note.
C13_FixedColumnsAndPlaceholders ==
  /\ \A j \in 1..Len(rows) :
       /\ [i \in 1..Len(rows[j].line_items) |-> rows[j].line_items[i].label] = LineItemColumns
       /\ [i \in 1..Len(rows[j].meta) |-> rows[j].meta[i].key] = ExplanationKeys
       /\ DOMAIN rows[j] = {"Comparable", "base_sale_price", "line_items", "net_adjustment",
                            "adjusted_price", "meta"}
       /\ rows[j].line_items[27].value = Num(0)
       /\ rows[j].line_items[28].value = Num(0)
       /\ rows[j].meta[27].d.note = "no external market data provided"
       /\ rows[j].meta[28].d.note = "no exemptions data provided"
  /\ pc = "done" =>
       grid.columns = <<"Comparable", "Base Sale Price">> \o LineItemColumns
                      \o <<"Net Adjustment (Property)", "Adjusted Price (Property)">>
                      \o ExplanationKeys

\* the market basis as a function of run's arguments
BasisOfInputs ==
  IF "sale_price" \in columns THEN Median(Column(comps, "sale_price")) ELSE NaN

\* the rows run returns as a function of its arguments
RowsOfInputs ==
  [i \in 1..Len(comps) |->
     MakeRow(subject, comps[i], comps, columns, policy, costs, BasisOfInputs).row]

\* C14: run leaves the subject, every comparable, the policy and the cost
\* assumptions as they were before the call, and the grid and summary it
\* returns are determined by those inputs (two calls with the same inputs
\* return the same grid and summary).
C14_InputsUnchangedResultDetermined ==
  /\ [][inputs' = inputs]_vars
  /\ [](pc = "done" =>
          /\ grid.rows = RowsOfInputs
          /\ summary = Median(Column(grid.rows, "adjusted_price")))

\* C14's case: a finished run over comparables of which one lacks a price, the
\* kind of row _market_psf drops from its working copy
C14_Witness ==
  /\ pc = "done"
  /\ Len(comps) >= 2
  /\ \E j \in 1..Len(comps) : IsNaN(comps[j].sale_price)
  /\ \E j \in 1..Len(comps) : IsNum(comps[j].sale_price)

\* x clamped to the window [lo, hi]: limited from above, then from below
Clamp(lo, hi, x) ==
  LET y == IF FGt(x, hi) THEN hi ELSE x
  IN IF FLt(y, lo) THEN lo ELSE y

\* the line window and the total window of a row with base price b
LineWindow(b) == FAbs(FMulBp(FloorAtOneDollar(b), Num(policy.line_cap_pct)))
TotalWindow(b) == FMulBp(FloorAtOneDollar(b), Num(policy.total_cap_pct))

\* C15: for each comparable every rule's raw adjustment is clamped to the line
\* window on its own, the net adjustment is the sum of the clamped values
\* clamped to the total window, so a raw adjustment above the line cap
\* contributes exactly the line cap.
C15_CapThenSum ==
  \A j \in 1..Len(rows) :
    /\ \A i \in 1..Len(rows[j].line_items) :
         rows[j].line_items[i].value =
           Clamp(FNeg(LineWindow(rows[j].base_sale_price)),
                 LineWindow(rows[j].base_sale_price), RawAdj(j, i))
    /\ rows[j].net_adjustment =
         Clamp(FNeg(TotalWindow(rows[j].base_sale_price)),
               TotalWindow(rows[j].base_sale_price),
               FSum([i \in 1..Len(rows[j].line_items) |-> rows[j].line_items[i].value]))

\* C16: the capping base is max(base price, 1.0): with line_cap_pct = 0.09 and
\* a base price at or below 1 (0 included) the line window is exactly +/-0.09,
\* so a raw adjustment of magnitude above 0.09 is reported as +/-0.09, not 0.
C16_UnitCappingBase ==
  \A j \in 1..Len(rows) :
    (/\ IsNum(rows[j].base_sale_price)
     /\ rows[j].base_sale_price.n <= 100
     /\ policy.line_cap_pct = 900) =>
      \A i \in 1..Len(rows[j].line_items) :
        \E raw \in {RawAdj(j, i)} :
          /\ FGt(raw, Num(9)) => rows[j].line_items[i].value = Num(9)
          /\ FLt(raw, Num(-9)) => rows[j].line_items[i].value = Num(-9)
          /\ (FLe(raw, Num(9)) /\ FLe(Num(-9), raw)) => rows[j].line_items[i].value = raw

\* C16's case: a row of a comparable sold for exactly 1 in which one raw
\* adjustment lies above 0.09 and another below -0.09
C16_Witness ==
  \E j \in 1..Len(rows) :
    /\ rows[j].base_sale_price = Num(100)
    /\ policy.line_cap_pct = 900
    /\ \E i \in 1..Len(rows[j].line_items) :
         FGt(RawAdj(j, i), Num(9)) /\ rows[j].line_items[i].value = Num(9)
    /\ \E i \in 1..Len(rows[j].line_items) :
         FLt(RawAdj(j, i), Num(-9)) /\ rows[j].line_items[i].value = Num(-9)

\* a sale date that is absent (None, empty string or NaN) or unparseable
NoDate(d) == d \notin {Str("2024-06-01"), Str("2023-06-01"), Str("2010-01-15")}

\* C17: the month difference of the sale-date rule always lies in [-120, 120],
\* and it is 0, hence the adjustment is 0, whenever the subject's or the
\* comparable's sale date is absent (None, empty string or NaN) or unparseable.
C17_MonthsClampedAndZeroWhenAbsent ==
  (pc = "called" /\ call.rule = 1) =>
    /\ call.fwd.err = ""
    /\ IsNum(call.fwd.d.months_diff)
    /\ call.fwd.d.months_diff.n >= -120
    /\ call.fwd.d.months_diff.n <= 120
    /\ (NoDate(subject.sale_date) \/ NoDate(comps[1].sale_date)) =>
         (call.fwd.d.months_diff = Num(0) /\ call.fwd.adj = Num(0))

\* C18: the market basis of the quality and condition rules is the median of
\* the sale prices of the comparables that have one (those without a price are
\* ignored, not counted as 0), the same for every row of a run, and undefined
\* when no comparable has a price.
C18_MarketBasis ==
  pc \in {"loop", "done"} =>
    /\ DefinedPrices = <<>> => IsNaN(indicated_value)
    /\ DefinedPrices # <<>> => IsMedianOf(indicated_value, DefinedPrices)
    /\ \A j \in 1..Len(rows) :
         /\ rows[j].meta[17].key = "META:Q"
         /\ rows[j].meta[17].d.building_basis = FMulBp(indicated_value, Num(6000))
         /\ rows[j].meta[18].key = "META:C"
         /\ rows[j].meta[18].d.building_basis = FMulBp(indicated_value, Num(6000))

\* C18's case: a finished run over three comparables, one without a price,
\* whose basis is the mean of the two prices present
C18_Witness ==
  /\ pc = "done"
  /\ Len(rows) = 3
  /\ Len(DefinedPrices) = 2
  /\ DefinedPrices[1] # DefinedPrices[2]
  /\ indicated_value = Num(Half(DefinedPrices[1].n + DefinedPrices[2].n))

\* no comparable has a sale price, or none has both a price and an area
DegenerateBasis ==
  \/ \A j \in 1..Len(comps) : ~IsNum(comps[j].sale_price)
  \/ \A j \in 1..Len(comps) : ~(IsNum(comps[j].sale_price) /\ IsNum(comps[j].gla))

\* C19: when the basis is degenerate the quality, condition and GLA line items
\* and the line caps are zero-valued numbers: no line item, net adjustment or
\* adjusted price of the grid is NaN.
C19_DegenerateBasisGivesNumbers ==
  (pc = "done" /\ DegenerateBasis) =>
    \A j \in 1..Len(grid.rows) :
      /\ \A i \in 1..Len(grid.rows[j].line_items) : IsNum(grid.rows[j].line_items[i].value)
      /\ grid.rows[j].line_items[11].value = Num(0)
      /\ grid.rows[j].line_items[17].value = Num(0)
      /\ grid.rows[j].line_items[18].value = Num(0)
      /\ IsNum(grid.rows[j].net_adjustment)
      /\ IsNum(grid.rows[j].adjusted_price)

\* the count a sampled value stands for, -1 when it is missing or unparseable
CountOf(v) ==
  CASE v = Num(2) -> 2
    [] v = Num(5) -> 5
    [] v = Str(" 1,2 ") -> 12
    [] OTHER -> -1

\* (subject count - comparable count) x rate when both are present, else 0
FlatRateRule(sv, cv, rate) ==
  IF CountOf(sv) < 0 \/ CountOf(cv) < 0 THEN Num(0)
  ELSE Num((CountOf(sv) - CountOf(cv)) * rate)

\* C20: bedrooms, bathrooms and stories each return (subject count -
\* comparable count) x the flat per-unit rate when both counts are present and
\* 0 when the count is missing on either side.
C20_FlatRateOrZero ==
  pc = "called" =>
    /\ call.rule = 14 =>
         call.fwd = [err |-> "", adj |-> FlatRateRule(subject.beds, comps[1].beds, costs.v_bed),
                     d |-> call.fwd.d]
    /\ call.rule = 15 =>
         call.fwd = [err |-> "", adj |-> FlatRateRule(subject.baths, comps[1].baths, costs.v_bath_full),
                     d |-> call.fwd.d]
    /\ call.rule = 16 =>
         call.fwd = [err |-> "", adj |-> FlatRateRule(subject.stories, comps[1].stories, costs.v_story),
                     d |-> call.fwd.d]

\* a text value that is missing: None, NaN or the empty string
MissingText(v) == v \in {None, NaN, Str("")}

\* attribute f is missing on the subject or on the comparable of the call
MissingOnASide(f) == MissingText(subject[f]) \/ MissingText(comps[1][f])

\* C21: in the location rule a missing neighborhood, subdivision or school
\* district (on one side only, or on both) contributes no mismatch percentage.
C21_MissingLocationIsNeutral ==
  (pc = "called" /\ call.rule = 3) =>
    /\ call.fwd.err = ""
    /\ MissingOnASide("neighborhood") => ~call.fwd.d.neighborhood_delta
    /\ MissingOnASide("subdivision") => ~call.fwd.d.subdivision_delta
    /\ MissingOnASide("school_district") => ~call.fwd.d.school_district_delta
    /\ (/\ MissingOnASide("neighborhood")
        /\ MissingOnASide("subdivision")
        /\ MissingOnASide("school_district")
        /\ subject.avg_school_rating = None /\ comps[1].avg_school_rating = None
        /\ subject.waterfront = None /\ comps[1].waterfront = None
        /\ IsNum(comps[1].sale_price)) => call.fwd.adj = Num(0)

\* the text of a name: the empty text when the name is missing
TextOf(v) == IF v.k = "str" THEN v.s ELSE ""

\* the percentage (basis points) of a name attribute that differs as text
NamePct(f, pct) == IF TextOf(subject[f]) # TextOf(comps[1][f]) THEN pct ELSE 0

\* a waterfront flag that is set: a true flag or a non-empty text
IsWaterfront(v) == v = Bool(TRUE) \/ (v.k = "str" /\ v.s # "")

\* the percentage (basis points) the statement of the location rule adds up
LocationPct ==
  NamePct("neighborhood", costs.different_neighborhood_pct)
  + NamePct("subdivision", costs.different_subdivision_pct)
  + NamePct("school_district", costs.different_school_district_pct)
  + (IF IsNum(subject.avg_school_rating) /\ IsNum(comps[1].avg_school_rating)
       THEN (subject.avg_school_rating.n - comps[1].avg_school_rating.n)
            * costs.school_rating_pct_per_point
       ELSE 0)
  + (CASE IsWaterfront(subject.waterfront) /\ ~IsWaterfront(comps[1].waterfront) -> costs.waterfront_pct
       [] ~IsWaterfront(subject.waterfront) /\ IsWaterfront(comps[1].waterfront) -> -costs.waterfront_pct
       [] OTHER -> 0)

\* C22: the location rule returns the comparable's sale price times the sum of
\* the fixed percentages of the neighborhood, subdivision and school district
\* that differ as case-sensitive text, the rating difference times the
\* per-point percentage when both ratings are defined, and the waterfront
\* percentage signed + when only the subject is waterfront, - when only the
\* comparable is, 0 when both or neither are.
C22_LocationFormula ==
  (pc = "called" /\ call.rule = 3) =>
    /\ call.fwd.err = ""
    /\ call.fwd.adj = FMulBp(BasePrice(comps[1]), Num(LocationPct))

\* the attribute read by rule i of style (7), construction (8), foundation (9)
\* and roof (10), and the rule's flat token
StructureField(i) ==
  CASE i = 7 -> "style" [] i = 8 -> "construction_materials"
    [] i = 9 -> "foundation_details" [] OTHER -> "roof"

StructureToken(i) ==
  CASE i = 7 -> costs.style_token [] i = 8 -> costs.construction_token
    [] i = 9 -> costs.foundation_token [] OTHER -> costs.roof_token

\* both values present and different once lower-cased
DifferIgnoringCase(sv, cv) ==
  /\ TextOf(sv) # "" /\ TextOf(cv) # ""
  /\ Lower(TextOf(sv)) # Lower(TextOf(cv))

\* C23: style, construction, foundation and roof each return their flat token
\* only when both values are present and differ after lower-casing, and 0 when
\* the values are equal ignoring case or either one is missing.
C23_TokenOnlyWhenBothPresentAndDiffer ==
  (pc = "called" /\ call.rule \in 7..10) =>
    /\ call.fwd.err = ""
    /\ call.fwd.adj =
         (IF DifferIgnoringCase(subject[StructureField(call.rule)],
                                comps[1][StructureField(call.rule)])
            THEN Num(StructureToken(call.rule)) ELSE Num(0))

\* the price per unit of area of the comparables that have both a sale price
\* and an area, in frame order
PricePerArea ==
  LET Complete(c) == IsNum(c.sale_price) /\ IsNum(c.gla)
      complete == SelectSeq(comps, Complete)
  IN [i \in 1..Len(complete) |-> Num(complete[i].sale_price.n \div complete[i].gla.n)]

\* r is the result of the GLA rule for subject area sv and comparable area cv
GlaFormula(r, sv, cv) ==
  /\ r.err = ""
  /\ IF PricePerArea = <<>> THEN r.d.market_psf = Num(0)
     ELSE IsMedianOf(r.d.market_psf, PricePerArea)
  /\ r.d.rate_psf = FMulBp(r.d.market_psf, Num(costs.gla_factor_psf))
  /\ r.adj = (IF IsNum(sv) /\ IsNum(cv) THEN Num(r.d.rate_psf.n * (sv.n - cv.n)) ELSE Num(0))

\* C24: the GLA rate is gla_factor_psf x the median of sale_price / gla over
\* exactly the comparables that have both a price and an area (0 when none has),
\* it is the same for every call on the frame, and the adjustment is rate x
\* (subject GLA - comparable GLA), or 0 when either GLA is missing.
C24_GlaRateAndAdjustment ==
  (pc = "called" /\ call.rule = 11) =>
    /\ GlaFormula(call.fwd, subject.gla, comps[1].gla)
    /\ GlaFormula(call.swp, comps[1].gla, subject.gla)
    /\ call.swp.d.rate_psf = call.fwd.d.rate_psf

\* C24's case: a frame of two comparables with different prices per unit of
\* area, both counted in the median, and a non-zero GLA adjustment
C24_Witness ==
  /\ pc = "called" /\ call.rule = 11
  /\ Len(PricePerArea) = 2
  /\ PricePerArea[1] # PricePerArea[2]
  /\ call.fwd.d.rate_psf.n > 0
  /\ call.fwd.adj.n # 0

\* C24's case with a comparable left out of the median for want of a price
C24_WitnessIncomplete ==
  /\ pc = "called" /\ call.rule = 11
  /\ Len(comps) = 2
  /\ Len(PricePerArea) = 1
  /\ call.fwd.adj.n # 0

\* the lower-cased text of a label, empty when the label is missing
LabelText(v) == IF v.k = "str" THEN Lower(v.s) ELSE ""

\* n is the ordinal of label v under the priority-ordered table: the value of
\* the keyword that occurs in the label and is preceded in the table by no
\* keyword that occurs in it, and 4 when no keyword occurs
IsOrdinalOf(n, table, v) ==
  LET Occurs(i) == Contains(LabelText(v), table[i][1])
  IN /\ n \in 2..6
     /\ (\A i \in 1..Len(table) : ~Occurs(i)) => n = 4
     /\ \A i \in 1..Len(table) :
          (Occurs(i) /\ \A j \in 1..(i - 1) : ~Occurs(j)) => n = table[i][2]

\* C25: the quality and condition ordinals are always in 2..6: the label is
\* matched by keyword containment against the table in its listed order, the
\* first matching keyword decides ('above average' gives 3, not the 4 of
\* 'average'), and a label without a keyword or a missing label gives 4.
C25_OrdinalsByFirstKeyword ==
  /\ (pc = "called" /\ call.rule = 17) =>
       /\ call.fwd.err = ""
       /\ IsOrdinalOf(call.fwd.d.x_subject, Q_MAP, subject.style)
       /\ IsOrdinalOf(call.fwd.d.x_comp, Q_MAP, comps[1].style)
       /\ subject.style = Str("Above Average") => call.fwd.d.x_subject = 3
       /\ subject.style \in {None, NaN, Str(""), Str("Ranch")} => call.fwd.d.x_subject = 4
  /\ (pc = "called" /\ call.rule = 18) =>
       /\ call.fwd.err = ""
       /\ IsOrdinalOf(call.fwd.d.x_subject, C_MAP, subject.property_condition_label)
       /\ IsOrdinalOf(call.fwd.d.x_comp, C_MAP, comps[1].property_condition_label)
       /\ subject.property_condition_label \in {None, NaN, Str("")} => call.fwd.d.x_subject = 4

\* C25's case: a style containing both 'above average' and 'average' on the
\* subject, a style with no keyword on the comparable
C25_Witness ==
  /\ pc = "called" /\ call.rule = 17
  /\ subject.style = Str("Above Average")
  /\ comps[1].style = Str("Ranch")
  /\ call.fwd.d.x_subject = 3
  /\ call.fwd.d.x_comp = 4

\* the median of a sequence of numbers by rank, NaN for the empty sequence
MedianByRank(q) ==
  LET n == Len(q)
      v == [i \in 1..n |-> q[i].n]
  IN IF n = 0 THEN NaN
     ELSE IF n % 2 = 1 THEN Num(KthSmallest(v, (n + 1) \div 2))
     ELSE Num(Half(KthSmallest(v, n \div 2) + KthSmallest(v, n \div 2 + 1)))

\* the median sale price of a frame over the comparables that have a price
MedianPriceOf(frame) == MedianByRank(SelectSeq(Column(frame, "sale_price"), IsNum))

\* the median price per unit of area of a frame over the comparables that
\* have both a price and an area
MedianPsfOf(frame) ==
  LET complete == SelectSeq(frame, LAMBDA c : IsNum(c.sale_price) /\ IsNum(c.gla))
  IN MedianByRank([i \in 1..Len(complete) |->
                     Num(complete[i].sale_price.n \div complete[i].gla.n)])

\* the second of two runs has finished
SecondRunDone == pc = "done" /\ previous.changed # 0

\* the rows of the comparables that are the same in both runs are the same
SameOtherRows ==
  \A i \in 1..Len(comps) :
    i # previous.changed => grid.rows[i] = previous.grid.rows[i]

\* C26 as stated: for two runs with the same subject, policy and costs whose
\* frames differ only in comparable j, the grid row of every other comparable
\* is identical in both runs.
C26_RowsIndependent == SecondRunDone => SameOtherRows

\* C26 amended: the rows of the other comparables are identical in both runs
\* when the two frames have the same median sale price and the same median
\* price per unit of area.
C26_RowsDependOnMediansOnly ==
  (/\ SecondRunDone
   /\ MedianPriceOf(comps) = MedianPriceOf(previous.comps)
   /\ MedianPsfOf(comps) = MedianPsfOf(previous.comps)) => SameOtherRows

\* C26's case: a second run of three comparables in which the changed
\* comparable has another price and another area but both medians are as before
C26_Witness ==
  /\ SecondRunDone
  /\ Len(comps) = 3
  /\ comps[previous.changed].sale_price # previous.comps[previous.changed].sale_price
  /\ comps[previous.changed].gla # previous.comps[previous.changed].gla
  /\ MedianPriceOf(comps) = MedianPriceOf(previous.comps)
  /\ MedianPsfOf(comps) = MedianPsfOf(previous.comps)
  /\ IsNum(MedianPriceOf(comps))
  /\ SameOtherRows

\* the position of the first of the results taken so far that is typed
\* 'subject', 0 when none is
FirstSubject ==
  LET typed == {i \in 1..yielded : properties[i].type = "subject"}
  IN IF typed = {} THEN 0 ELSE CHOOSE i \in typed : \A j \in typed : i <= j

\* the payload fetched for property i: an error payload when its fetch failed
PayloadOf(i) == [of |-> properties[i].address, error |-> futures[i].raised]

\* the payloads of the first n properties other than the first subject, in
\* input order
RECURSIVE PayloadsUpTo(_)
PayloadsUpTo(n) ==
  IF n = 0 THEN <<>>
  ELSE IF n = FirstSubject THEN PayloadsUpTo(n - 1)
  ELSE Append(PayloadsUpTo(n - 1), PayloadOf(n))

\* C27: under every interleaving and completion order of the worker threads the
\* comparables hold the payloads in the order of the input list, the subject is
\* the payload of the first property typed 'subject', every later property typed
\* 'subject' is among the comparables, and a failed fetch leaves an error payload
\* in its position: when the call returns no property is missing.
C27_FetchPreservesOrder ==
  fetch_pc \in {"loop", "returned"} =>
    /\ hs_subject = (IF FirstSubject = 0 THEN NoSubject ELSE PayloadOf(FirstSubject))
    /\ comparables = PayloadsUpTo(yielded)
    /\ fetch_pc = "returned" =>
         /\ yielded = Len(properties)
         /\ Len(comparables) = Len(properties) - (IF FirstSubject = 0 THEN 0 ELSE 1)

\* C27's case: three properties, the second and third typed 'subject', the
\* first the last to be fetched, the fetch of the third failed, the call returned
C27_Witness ==
  /\ fetch_pc = "returned"
  /\ Len(properties) = 3
  /\ properties[1].type = "comparable"
  /\ properties[2].type = "subject"
  /\ properties[3].type = "subject"
  /\ completion = <<2, 3, 1>>
  /\ futures[3].raised
  /\ hs_subject = [of |-> 2, error |-> FALSE]
  /\ comparables = <<[of |-> 1, error |-> FALSE], [of |-> 3, error |-> TRUE]>>

\* the comparable of the call is identical to the subject on every field the
\* rules read on both records (the sale price is read on the comparable only)
IdenticalRecords == \A f \in Fields \ {"sale_price", "address"} : subject[f] = comps[1][f]

\* every line item of the row is 0, its net adjustment is 0 and its adjusted
\* price is its base sale price
NothingAdjusted(row) ==
  /\ \A i \in 1..Len(row.line_items) : row.line_items[i].value = Num(0)
  /\ row.net_adjustment = Num(0)
  /\ row.adjusted_price = row.base_sale_price

\* C28: when a comparable's record is identical to the subject's on every field
\* the rules read (same sale date included) and the market basis is defined,
\* every line item of its row is 0, its net adjustment is 0 and its adjusted
\* price equals its base sale price.
C28_IdenticalComparableUnadjusted ==
  (pc = "loop" /\ IdenticalRecords /\ IsNum(indicated_value)) =>
    \E m \in {MakeRow(subject, comps[1], comps, columns, policy, costs, indicated_value)} :
      m.err = "" /\ NothingAdjusted(m.row)

\* C29: the style, construction, foundation and roof rules are symmetric:
\* swapping subject and comparable leaves the adjustment unchanged, and with a
\* non-negative token the adjustment is never negative.
C29_StructureRulesSymmetric ==
  (pc = "called" /\ call.rule \in 7..10) =>
    /\ call.swp.err = call.fwd.err
    /\ call.swp.adj = call.fwd.adj
    /\ (call.fwd.err = "" /\ StructureToken(call.rule) >= 0) =>
         (IsNum(call.fwd.adj) /\ call.fwd.adj.n >= 0)

\* C29's case: two different styles, the token returned for the pair and for
\* the swapped pair
C29_Witness ==
  /\ pc = "called" /\ call.rule = 7
  /\ subject.style = Str("Ranch")
  /\ comps[1].style = Str("Luxury Custom")
  /\ call.fwd.adj = Num(costs.style_token)
  /\ call.swp.adj = Num(costs.style_token)
  /\ costs.style_token > 0

\* base x (1 - total_cap_pct) and base x (1 + total_cap_pct), in cents
LowestAdjusted(b) == b.n - MulBpInt(b.n, policy.total_cap_pct)
HighestAdjusted(b) == b.n + MulBpInt(b.n, policy.total_cap_pct)

\* the base price of the row is a number of at least 1.00
BaseAtLeastOne(row) == IsNum(row.base_sale_price) /\ row.base_sale_price.n >= 100

\* C30: for every comparable with base price >= 1 and a policy with
\* 0 <= total_cap_pct the adjusted price lies in [base x (1 - total_cap_pct),
\* base x (1 + total_cap_pct)]; when every comparable has base price >= 1 the
\* indicated value lies between the smallest lower and the largest upper end
\* of these intervals, and is non-negative when total_cap_pct <= 1.
C30_AdjustedWithinTotalCapOfBase ==
  policy.total_cap_pct >= 0 =>
    /\ \A j \in 1..Len(rows) :
         BaseAtLeastOne(rows[j]) =>
           /\ IsNum(rows[j].adjusted_price)
           /\ rows[j].adjusted_price.n >= LowestAdjusted(rows[j].base_sale_price)
           /\ rows[j].adjusted_price.n <= HighestAdjusted(rows[j].base_sale_price)
    /\ (pc = "done" /\ \A j \in 1..Len(rows) : BaseAtLeastOne(rows[j])) =>
         /\ IsNum(summary)
         /\ \E j \in 1..Len(rows) : summary.n >= LowestAdjusted(rows[j].base_sale_price)
         /\ \E j \in 1..Len(rows) : summary.n <= HighestAdjusted(rows[j].base_sale_price)
         /\ policy.total_cap_pct <= 10000 => summary.n >= 0

\* C30's case: a finished run of two comparables with base price >= 1, one
\* adjusted to the upper end of its interval, the other left inside it
C30_Witness ==
  /\ pc = "done"
  /\ policy.total_cap_pct > 0
  /\ Len(rows) = 2
  /\ BaseAtLeastOne(rows[1]) /\ BaseAtLeastOne(rows[2])
  /\ rows[1].adjusted_price.n = HighestAdjusted(rows[1].base_sale_price)
  /\ rows[2].adjusted_price.n > LowestAdjusted(rows[2].base_sale_price)
  /\ rows[2].adjusted_price.n < HighestAdjusted(rows[2].base_sale_price)
  /\ IsNum(summary)

=============================================================================
